---- MODULE Spec2Model ----
(***************************************************************************)
(* Verification model of the voice-receptionist orchestrators of           *)
(* praveenp229/voiceai-production.                                         *)
(*                                                                         *)
(*   SpecFlow  - the step-counter dialogue machine of fixed_flow_app.py    *)
(*               (multitenant_saas_app.py carries the same machine with a  *)
(*               tenant_id added to the session and the appointment).      *)
(*   SpecFinal - the history-derived orchestrator of                       *)
(*               final_voiceai_system.py and its webhook handlers.         *)
(*   SpecTurn  - one voice turn of the multi-tenant service                *)
(*               (app/services/voice_service.py) behind the gather webhook *)
(*               (app/api/v1/endpoints/voice.py).                          *)
(*   SpecAsync - the background job (app/tasks/voice_tasks.py) and the     *)
(*               endpoint that polls it (app/api/v1/endpoints/             *)
(*               voice_async.py).                                          *)
(*   SpecAsyncLive - SpecAsync with workers that keep running.             *)
(*   SpecAsyncExpiry - SpecAsync on the time scale of the result backend,  *)
(*               which drops stored results after result_expires.          *)
(*   SpecJobs  - the retry schedule of the three jobs of voice_tasks.py.   *)
(*   SpecGateway - validate_twilio_signature (app/utils/twilio_utils.py)   *)
(*               applied to signed and unsigned requests.                  *)
(*   SpecFlowLive - SpecFlow in time: the clock of the process keeps       *)
(*               ticking whether or not requests arrive.                   *)
(*   SpecTenant - the step-counter machine of multitenant_saas_app.py      *)
(*               behind its per-tenant webhook.                            *)
(*   SpecTenantAdmin - the same webhook interleaved with the deletions of  *)
(*               the admin API.                                            *)
(*   SpecDb    - concurrent finalizing webhooks of database_app.py.        *)
(*   SpecHybrid - the rule-based receptionist of hybrid_voice_system.py.   *)
(*   SpecProd  - the history-driven receptionist of                        *)
(*               fixed_production_app.py.                                  *)
(*   SpecSmart - the conversational receptionist of                        *)
(*               smart_receptionist_app.py, which derives the booking      *)
(*               from the stored user messages of the call.                *)
(*                                                                         *)
(* Strings are real strings: extraction is computed character by           *)
(* character the way the regular expressions of the source compute it.     *)
(***************************************************************************)
EXTENDS Integers, Sequences, FiniteSets, TLC

(***************************************************************************)
(* Bounds of the model (not program constants).                            *)
(***************************************************************************)
\* number of webhook requests in one behaviour of SpecDb
MaxDbEvents == 3
\* number of /process requests in one behaviour of SpecHybrid
MaxHybridEvents == 4
\* number of webhook requests in one behaviour of SpecProd
MaxProdEvents == 4
\* number of webhook requests of known tenants in one behaviour of
\* SpecTenantAdmin
MaxAdminEvents == 10
\* number of webhook requests of known tenants in one behaviour of SpecTenant
MaxTenantEvents == 5
\* number of webhook requests handled in one behaviour of SpecSmart
MaxSmartEvents == 3
\* number of webhook requests handled in one behaviour of SpecFlow
MaxEvents == 7
\* number of requests the process endpoint handles in one behaviour of SpecFinal
MaxProcessed == 3
\* number of gather requests handled in one behaviour of SpecTurn
MaxTurnRequests == 3
\* number of background jobs queued in one behaviour of SpecAsync
MaxTasks == 2

(***************************************************************************)
(* String helpers: the fragment of Python's str / re used by the source.   *)
(***************************************************************************)
LowerAlphabet == "abcdefghijklmnopqrstuvwxyz"
UpperAlphabet == "ABCDEFGHIJKLMNOPQRSTUVWXYZ"
DigitChars == "0123456789"

Ch(s, i) == SubSeq(s, i, i)

CharsOf(s) == {Ch(s, i) : i \in 1..Len(s)}

\* the character classes, built once
LowerChars == CharsOf(LowerAlphabet)
UpperChars == CharsOf(UpperAlphabet)
Digits == CharsOf(DigitChars)

IsLower(c) == c \in LowerChars
IsUpper(c) == c \in UpperChars
IsDigit(c) == c \in Digits
IsSpace(c) == c = " "
\* the separator class [-.\s] of the phone pattern
IsPhoneSep(c) == c \in {"-", ".", " "}

IndexIn(alphabet, c) == CHOOSE i \in 1..Len(alphabet) : Ch(alphabet, i) = c

\* the case mappings of the letters, built once
ToLower == [c \in UpperChars |-> Ch(LowerAlphabet, IndexIn(UpperAlphabet, c))]
ToUpper == [c \in LowerChars |-> Ch(UpperAlphabet, IndexIn(LowerAlphabet, c))]

LowerCh(c) == IF IsUpper(c) THEN ToLower[c] ELSE c
UpperCh(c) == IF IsLower(c) THEN ToUpper[c] ELSE c

\* str.lower(), computed by halves
RECURSIVE Lower(_)
Lower(s) ==
    IF Len(s) <= 1 THEN LowerCh(s)
    ELSE Lower(SubSeq(s, 1, Len(s) \div 2)) \o Lower(SubSeq(s, (Len(s) \div 2) + 1, Len(s)))

\* str.title(): a letter that follows a non-letter is upper-cased, any
\* other letter is lower-cased.
RECURSIVE TitleFrom(_, _)
TitleFrom(s, prevIsLetter) ==
    IF Len(s) = 0 THEN ""
    ELSE LET c == Ch(s, 1)
             isL == IsLower(c) \/ IsUpper(c)
             out == IF prevIsLetter THEN LowerCh(c) ELSE UpperCh(c)
         IN out \o TitleFrom(SubSeq(s, 2, Len(s)), isL)

Title(s) == TitleFrom(s, FALSE)

\* str.strip()
RECURSIVE LStrip(_)
LStrip(s) == IF Len(s) > 0 /\ IsSpace(Ch(s, 1)) THEN LStrip(SubSeq(s, 2, Len(s))) ELSE s

RECURSIVE RStrip(_)
RStrip(s) == IF Len(s) > 0 /\ IsSpace(Ch(s, Len(s))) THEN RStrip(SubSeq(s, 1, Len(s) - 1)) ELSE s

Strip(s) == RStrip(LStrip(s))

\* the Python test `k in s` on strings
Contains(s, k) == \E i \in 1..(Len(s) - Len(k) + 1) : SubSeq(s, i, i + Len(k) - 1) = k

\* any(word in s for word in words)
ContainsAny(s, words) == \E k \in words : Contains(s, k)

\* len(s.split()): the number of maximal runs of non-space characters
WordCount(s) ==
    Cardinality({i \in 1..Len(s) : ~IsSpace(Ch(s, i)) /\ (i = 1 \/ IsSpace(Ch(s, i - 1)))})

\* s[i:] starts with k
StartsAt(s, i, k) == i + Len(k) - 1 <= Len(s) /\ SubSeq(s, i, i + Len(k) - 1) = k

\* index of the last character of the maximal run of lower-case letters
\* that starts at i (i - 1 when s[i] is not a letter): the greedy [a-z]+
RECURSIVE LetterRunEnd(_, _)
LetterRunEnd(s, i) ==
    IF i <= Len(s) /\ IsLower(Ch(s, i)) THEN LetterRunEnd(s, i + 1) ELSE i - 1

\* the greedy \s+ starting at i
RECURSIVE SpaceRunEnd(_, _)
SpaceRunEnd(s, i) ==
    IF i <= Len(s) /\ IsSpace(Ch(s, i)) THEN SpaceRunEnd(s, i + 1) ELSE i - 1

\* Optional values: <<>> is Python's None, <<v>> is the value v.
None == <<>>
Some(v) == <<v>>

(***************************************************************************)
(* fixed_flow_app.py: SimpleReceptionist.extract_info_from_speech          *)
(***************************************************************************)
\* (?:my name is|i'm|this is|i am) in the order the alternation tries them
IntroPhrases == <<"my name is", "i'm", "this is", "i am">>

\* words whose presence in a candidate name rejects it (line 84)
NameFillers == {"calling", "appointment", "schedule", "like", "want", "dental"}

\* One alternative of pattern 1 tried at position i:
\*   alt \s+ ([a-z]+(?:\s+[a-z]+)?)          -> the span of group 1, or None
IntroAltAt(s, i, alt) ==
    IF ~StartsAt(s, i, alt) THEN None
    ELSE LET j  == i + Len(alt)
             e1 == SpaceRunEnd(s, j)
             e2 == LetterRunEnd(s, e1 + 1)
             e3 == SpaceRunEnd(s, e2 + 1)
             e4 == LetterRunEnd(s, e3 + 1)
         IN IF e1 < j \/ e2 < e1 + 1 THEN None
            ELSE IF e3 >= e2 + 1 /\ e4 >= e3 + 1
                 THEN Some(SubSeq(s, e1 + 1, e4))
                 ELSE Some(SubSeq(s, e1 + 1, e2))

\* pattern 1 tried at position i: the first alternative that matches
IntroAt(s, i) ==
    LET ks == {k \in 1..Len(IntroPhrases) : IntroAltAt(s, i, IntroPhrases[k]) # None}
    IN IF ks = {} THEN None
       ELSE IntroAltAt(s, i, IntroPhrases[CHOOSE k \in ks : \A m \in ks : k <= m])

\* pattern 2 tried at position i:  ([a-z]{2,}\s+[a-z]{2,})
TwoWordsAt(s, i) ==
    LET e1 == LetterRunEnd(s, i)
        e2 == SpaceRunEnd(s, e1 + 1)
        e3 == LetterRunEnd(s, e2 + 1)
    IN IF e1 >= i + 1 /\ e2 >= e1 + 1 /\ e3 >= e2 + 2
       THEN Some(SubSeq(s, i, e3)) ELSE None

\* pattern 3 tried at position i:  ([a-z]{3,})
SingleNameAt(s, i) ==
    LET e == LetterRunEnd(s, i)
    IN IF e >= i + 2 THEN Some(SubSeq(s, i, e)) ELSE None

\* re.search: the match at the leftmost position where the pattern matches
SearchIntro(s) ==
    LET ps == {i \in 1..Len(s) : IntroAt(s, i) # None}
    IN IF ps = {} THEN None ELSE IntroAt(s, CHOOSE i \in ps : \A j \in ps : i <= j)

SearchTwoWords(s) ==
    LET ps == {i \in 1..Len(s) : TwoWordsAt(s, i) # None}
    IN IF ps = {} THEN None ELSE TwoWordsAt(s, CHOOSE i \in ps : \A j \in ps : i <= j)

SearchSingleName(s) ==
    LET ps == {i \in 1..Len(s) : SingleNameAt(s, i) # None}
    IN IF ps = {} THEN None ELSE SingleNameAt(s, CHOOSE i \in ps : \A j \in ps : i <= j)

\* (\d{3}[-.\s]?\d{3}[-.\s]?\d{4}) tried at position i
AllDigits(s, a, b) == b <= Len(s) /\ \A k \in a..b : IsDigit(Ch(s, k))

PhoneAt(s, i) ==
    IF ~AllDigits(s, i, i + 2) THEN None
    ELSE LET p == IF i + 3 <= Len(s) /\ IsPhoneSep(Ch(s, i + 3)) THEN i + 4 ELSE i + 3
         IN IF ~AllDigits(s, p, p + 2) THEN None
            ELSE LET q == IF p + 3 <= Len(s) /\ IsPhoneSep(Ch(s, p + 3)) THEN p + 4 ELSE p + 3
                 IN IF AllDigits(s, q, q + 3) THEN Some(SubSeq(s, i, q + 3)) ELSE None

SearchPhone(s) ==
    LET ps == {i \in 1..Len(s) : PhoneAt(s, i) # None}
    IN IF ps = {} THEN None ELSE PhoneAt(s, CHOOSE i \in ps : \A j \in ps : i <= j)

\* the candidate a name pattern yields, after .title() and the filler filter
NameCandidate(m, fillers) ==
    IF m = None THEN None
    ELSE LET name == Title(m[1])
         IN IF ContainsAny(Lower(name), fillers) THEN None ELSE Some(name)

\* lines 71-89, parameterised by the filler list (multitenant_saas_app.py
\* runs the same code with a shorter list)
ExtractName(speech, fillers) ==
    LET c1 == NameCandidate(SearchIntro(speech), fillers)
        c2 == NameCandidate(SearchTwoWords(speech), fillers)
        c3 == NameCandidate(SearchSingleName(speech), fillers)
    IN IF c1 # None THEN c1
       ELSE IF c2 # None THEN c2
       ELSE IF c3 # None THEN c3
       ELSE IF WordCount(speech) <= 3 /\ Len(speech) > 2 THEN Some(Title(speech))
       ELSE None

\* lines 97-107
ExtractType(speech) ==
    IF ContainsAny(speech, {"clean", "cleaning"}) THEN Some("cleaning")
    ELSE IF ContainsAny(speech, {"check", "checkup", "exam"}) THEN Some("checkup")
    ELSE IF ContainsAny(speech, {"consult", "consultation", "new"}) THEN Some("consultation")
    ELSE IF ContainsAny(speech, {"emergency", "urgent", "pain", "hurt"}) THEN Some("emergency")
    ELSE Some("checkup")

\* lines 109-115
ExtractTime(speech) ==
    IF ContainsAny(speech, {"morning", "am", "early"}) THEN Some("morning")
    ELSE IF ContainsAny(speech, {"afternoon", "pm", "later"}) THEN Some("afternoon")
    ELSE Some("morning")

extract_info_from_speech(speech0, step) ==
    LET speech == Strip(Lower(speech0))
    IN CASE step = 1 -> ExtractName(speech, NameFillers)
         [] step = 2 -> SearchPhone(speech)
         [] step = 3 -> ExtractType(speech)
         [] step = 4 -> ExtractTime(speech)
         [] OTHER    -> None

(***************************************************************************)
(* fixed_flow_app.py: state of the step-counter machine                    *)
(***************************************************************************)
VARIABLES
    \* fixed_flow_app.py
    call_states,     \* call_states: call_id -> [step, data, attempts]
    appointments,    \* appointments: appointment number -> appointment
    calls_handled,   \* system_stats["calls_handled"]
    reply,           \* the response of the latest webhook request
    last,            \* history: the latest webhook event and its outcome
    dup,             \* history: the latest request redelivered that event
    failRun,         \* history: consecutive non-extracting utterances per call
    turns,           \* history: utterances handled since the session was created
    scen,            \* history: progress of each call along the scripted scenarios
    made,            \* history: the appointment numbers each call's events created
    clock,           \* the parity of the seconds the server process has run
    \* final_voiceai_system.py
    fv_call_states,  \* call_states: call_id -> list of [role, content]
    fv_appointments, \* appointments: appointment id -> appointment
    mock_events,     \* appointment_manager.calendar.mock_events
    client,          \* an OpenAI client was configured at start-up
    fv_reply,        \* the response of the latest request
    fv_made,         \* history: the appointment ids each call's events created
    fv_writers,      \* history: the telephone calls whose events wrote each session
    fv_handled,      \* history: requests the process endpoint has handled
    \* app/ (multi-tenant service)
    voice_config,    \* the VoiceConfig row of tenant t1
    db,              \* the committed customer and call-log rows of the call
    vt_reply,        \* the response of the latest gather request
    vt_trace,        \* history: what the latest turn obtained from the AI service
    vt_handled,      \* history: gather requests handled
    tasks,           \* the result backend: task id -> state of the job
    va_reply,        \* the response of the latest request to the async endpoints
    va_last,         \* history: the status the latest poll read
    \* app/utils/twilio_utils.py and app/core/config.py
    settings,        \* settings.DEBUG and settings.TWILIO_AUTH_TOKEN
    sg_request,      \* history: the latest request given to validate_twilio_signature
    sg_valid,        \* what validate_twilio_signature returned for it
    \* smart_receptionist_app.py
    call_conversations, \* call_conversations: call_id -> list of [role, content]
    sr_appointments, \* appointments: appointment number -> appointment
    sr_handled,      \* system_stats["calls_handled"]
    sr_reply,        \* the response of the latest webhook request
    \* multitenant_saas_app.py
    mt_call_states,  \* call_states: call_id -> [tenant_id, step, data, attempts]
    mt_appointments, \* appointments: appointment id -> appointment
    tenants,         \* tenants: tenant_id -> the stats of the tenant
    mt_stats,        \* system_stats
    mt_reply,        \* the response of the latest webhook request
    \* app/tasks/celery_app.py
    expired,         \* the task ids whose stored result the backend has dropped
    fp_call_states,  \* fixed_production_app.py call_states: call id -> messages
    fp_appointments, \* fixed_production_app.py appointments: id -> record
    fp_stats,        \* fixed_production_app.py system_stats
    fp_reply,        \* the TwiML the webhook of fixed_production_app.py returned
    hy_call_states,  \* hybrid_voice_system.py call_states: call id -> messages
    hy_appointments, \* hybrid_voice_system.py appointments: id -> record
    hy_events,       \* the mock_events of its AppointmentManager's calendar
    hy_handled,      \* number of /process requests handled
    hy_reply,        \* the TwiML its /process endpoint returned
    da_appointments, \* database_app.py: the rows of the appointments table
    da_call_logs,    \* database_app.py: the call_sid values of the call_logs table
    da_stats,        \* database_app.py system_stats
    da_handlers,     \* the webhook requests in progress: where each one waits
    da_replies,      \* what each handler returned last
    da_conversations \* database_app.py call_conversations: call id -> replies

flowVars == <<call_states, appointments, calls_handled, reply, last, dup,
              failRun, turns, scen, made, clock>>
finalVars == <<fv_call_states, fv_appointments, mock_events, client, fv_reply,
               fv_made, fv_writers, fv_handled>>
turnVars == <<voice_config, db, vt_reply, vt_trace, vt_handled>>
asyncVars == <<tasks, va_reply, va_last>>
gatewayVars == <<settings, sg_request, sg_valid>>
smartVars == <<call_conversations, sr_appointments, sr_handled, sr_reply>>
tenantVars == <<mt_call_states, mt_appointments, tenants, mt_stats, mt_reply>>
backendVars == <<expired>>
prodVars == <<fp_call_states, fp_appointments, fp_stats, fp_reply>>
hybridVars == <<hy_call_states, hy_appointments, hy_events, hy_handled, hy_reply>>
dbVars == <<da_appointments, da_call_logs, da_stats, da_handlers, da_replies, da_conversations>>
vars == <<flowVars, finalVars, turnVars, asyncVars, gatewayVars, smartVars, tenantVars, backendVars, prodVars, hybridVars, dbVars>>

\* the CallSid values the telephony provider sends
CallSids == {"CA1", "CA2"}

\* the SpeechResult values of the model; "" stands for an absent or empty
\* SpeechResult (the code only tests its truth value)
U_NAME  == "My name is Jane Doe"
U_PHONE == "555-123-4567"
U_CLEAN == "cleaning"
U_MORN  == "morning"
U_YES   == "yes"
U_UM    == "um"
NoSpeech == ""
Utterances == {U_NAME, U_PHONE, U_CLEAN, U_MORN, U_YES, U_UM}
SpeechResults == Utterances \cup {NoSpeech}

\* the table of extract_info_from_speech over the model's utterances
Extracted == [u \in Utterances, st \in 0..5 |-> extract_info_from_speech(u, st)]

Slots == {"name", "phone", "type", "time"}
SlotOfStep == [st \in 1..4 |-> CASE st = 1 -> "name" [] st = 2 -> "phone"
                                 [] st = 3 -> "type" [] st = 4 -> "time"]
\* lines 153-160: the value stored when the attempts are exhausted
DefaultOfStep == [st \in 1..4 |-> CASE st = 1 -> "Customer" [] st = 2 -> "Unknown"
                                    [] st = 3 -> "checkup" [] st = 4 -> "morning"]

\* call_data["data"][slot] = v   (steps outside 1..4 store nothing)
StoreSlot_mut(data, st, v) == IF st \in 2..4 THEN (SlotOfStep[st - 1] :> v) @@ data ELSE data
StoreSlot(data, st, v) == IF st \in 1..4 THEN (SlotOfStep[st] :> v) @@ data ELSE data

\* dict.get(key, default)
DictGet(d, k, default) == IF k \in DOMAIN d THEN d[k] ELSE default

\* (mutant) a new session starts at the name step
NewCallData_mut == [step |-> 1, data |-> <<>>, attempts |-> 0]

\* lines 59-64: the session created for an unknown call_id
NewCallData == [step |-> 0, data |-> <<>>, attempts |-> 0]

\* lines 57-65
get_call_data(cs, call_id) == IF call_id \in DOMAIN cs THEN cs[call_id] ELSE NewCallData

\* the attempt cap of line 152
AttemptCap == 2

\* (mutant) the default is forced one failed utterance too late
FailedAttempt_mut(cd) ==
    IF cd.attempts + 1 > AttemptCap
    THEN [step |-> cd.step + 1,
          data |-> StoreSlot(cd.data, cd.step,
                             IF cd.step \in 1..4 THEN DefaultOfStep[cd.step] ELSE ""),
          attempts |-> 0]
    ELSE [cd EXCEPT !.attempts = cd.attempts + 1]

\* lines 146-163: the session after an utterance from which nothing was
\* extracted
FailedAttempt(cd) ==
    IF cd.attempts + 1 >= AttemptCap
    THEN [step |-> cd.step + 1,
          data |-> StoreSlot(cd.data, cd.step,
                             IF cd.step \in 1..4 THEN DefaultOfStep[cd.step] ELSE ""),
          attempts |-> 0]
    ELSE [cd EXCEPT !.attempts = cd.attempts + 1]

\* (mutant) on exhausted attempts the default is stored but the step is not
\* advanced
ApplyExtraction_mut(cd, extracted) ==
    IF extracted # None /\ extracted[1] # ""
    THEN [step |-> cd.step + 1,
          data |-> StoreSlot(cd.data, cd.step, extracted[1]),
          attempts |-> 0]
    ELSE IF cd.attempts + 1 >= AttemptCap
         THEN [step |-> cd.step,
               data |-> StoreSlot(cd.data, cd.step,
                                  IF cd.step \in 1..4 THEN DefaultOfStep[cd.step] ELSE ""),
               attempts |-> 0]
         ELSE [cd EXCEPT !.attempts = cd.attempts + 1]

\* lines 131-163: the session after the value `extracted` (or None) was
\* obtained from the utterance
ApplyExtraction(cd, extracted) ==
    IF extracted # None /\ extracted[1] # ""
    THEN [step |-> cd.step + 1,
          data |-> StoreSlot(cd.data, cd.step, extracted[1]),
          attempts |-> 0]
    ELSE FailedAttempt(cd)

\* (mutant) an event without speech is handled like an utterance from which
\* nothing could be extracted
ProcessSpeech_mut(cd, speech) ==
    IF cd.step > 0
    THEN ApplyExtraction(cd, IF speech = "" THEN None
                             ELSE Extracted[speech, IF cd.step <= 5 THEN cd.step ELSE 5])
    ELSE cd

\* lines 127-163: the session after the speech input was processed
ProcessSpeech(cd, speech) ==
    IF speech # "" /\ cd.step > 0
    THEN ApplyExtraction(cd, Extracted[speech, IF cd.step <= 5 THEN cd.step ELSE 5])
    ELSE cd

\* (mutant) the appointment type is read under a key the session never holds
AppointmentData_mut(appointment_id, data) ==
    [confirmation_number |-> appointment_id,
     name  |-> DictGet(data, "name", "Customer"),
     phone |-> DictGet(data, "phone", "Unknown"),
     type  |-> DictGet(data, "appointment_type", "checkup"),
     time  |-> DictGet(data, "time", "morning")]

\* lines 192-200: the appointment built from the collected data
AppointmentData(appointment_id, data) ==
    [confirmation_number |-> appointment_id,
     name  |-> DictGet(data, "name", "Customer"),
     phone |-> DictGet(data, "phone", "Unknown"),
     type  |-> DictGet(data, "type", "checkup"),
     time  |-> DictGet(data, "time", "morning")]

\* del call_states[call_id]
DelKey(f, k) == [x \in DOMAIN f \ {k} |-> f[x]]

\* f[k] = v for a Python dict
SetKey(f, k, v) == (k :> v) @@ f

\* lines 165-220: the reply for the session cd obtained from the speech
\* input.  The result carries the new call_states and appointments, the
\* prompt returned, the is_complete flag and the confirmation number spoken
\* in the reply (0 when the reply carries none; the code formats the number
\* n as "APT_%04d").
Respond(cs, apps, call_id, cd) ==
    CASE cd.step = 0 ->
           [cs |-> SetKey(cs, call_id, [cd EXCEPT !.step = 1]), apps |-> apps,
            prompt |-> "greeting", complete |-> FALSE, confirmation |-> 0]
      [] cd.step = 1 ->
           [cs |-> SetKey(cs, call_id, cd), apps |-> apps,
            prompt |-> IF cd.attempts >= AttemptCap THEN "ask_phone_no_name" ELSE "reprompt_name",
            complete |-> FALSE, confirmation |-> 0]
      [] cd.step = 2 ->
           [cs |-> SetKey(cs, call_id, cd), apps |-> apps,
            prompt |-> IF "name" \in DOMAIN cd.data THEN "thank_ask_phone" ELSE "ask_phone",
            complete |-> FALSE, confirmation |-> 0]
      [] cd.step = 3 ->
           [cs |-> SetKey(cs, call_id, cd), apps |-> apps,
            prompt |-> "ask_type", complete |-> FALSE, confirmation |-> 0]
      [] cd.step = 4 ->
           [cs |-> SetKey(cs, call_id, cd), apps |-> apps,
            prompt |-> "ask_time", complete |-> FALSE, confirmation |-> 0]
      [] cd.step >= 5 ->
           [cs |-> DelKey(cs, call_id),
            apps |-> SetKey(apps, Cardinality(DOMAIN apps) + 1,
                            AppointmentData(Cardinality(DOMAIN apps) + 1, cd.data)),
            prompt |-> "confirmation", complete |-> TRUE,
            confirmation |-> Cardinality(DOMAIN apps) + 1]

\* lines 119-220
generate_response(cs, apps, call_id, speech_result) ==
    Respond(cs, apps, call_id, ProcessSpeech(get_call_data(cs, call_id), speech_result))

\* lines 262-283: the markup built from (response_text, is_complete), as the
\* sequence of its verbs
RenderTwiml(complete) ==
    IF complete THEN <<"Say", "Hangup">>
    ELSE <<"Say", "Gather", "Say", "Gather", "Say", "Hangup">>

(***************************************************************************)
(* fixed_flow_app.py: the voice webhook as a state machine (SpecFlow)      *)
(***************************************************************************)
NoReply == [prompt |-> "", complete |-> FALSE, confirmation |-> 0, verbs |-> <<>>]

\* the stored session of a call, or None
SessionOf(cs, c) == IF c \in DOMAIN cs THEN Some(cs[c]) ELSE None

NoEvent == [call |-> "", speech |-> "", reply |-> NoReply, sess |-> None, apps |-> <<>>]

\* the two scripted five-event scenarios a call can follow from its first
\* event: five utterances, and the call-start event followed by four
ScriptUtterances == <<U_NAME, U_PHONE, U_CLEAN, U_MORN, U_YES>>
ScriptCallStart  == <<NoSpeech, U_NAME, U_PHONE, U_CLEAN, U_MORN>>

ScriptStep(k, script, u) ==
    IF k >= 0 /\ k < Len(script) /\ script[k + 1] = u THEN k + 1 ELSE -1

FlowInit ==
    /\ call_states = <<>>
    /\ appointments = <<>>
    /\ calls_handled = 0
    /\ reply = NoReply
    /\ last = NoEvent
    /\ dup = FALSE
    /\ failRun = [c \in CallSids |-> [step |-> 0, n |-> 0]]
    /\ turns = [c \in CallSids |-> [total |-> 0, atStep |-> 0]]
    /\ scen = [c \in CallSids |-> [utterances |-> 0, callStart |-> 0]]
    /\ made = [c \in CallSids |-> {}]
    /\ clock = 0

\* the utterance u is one from which nothing is extracted at step st
FailsAt(u, st) == u # "" /\ st \in 1..4 /\ Extracted[u, st] = None

\* the history variables after the event (c, u) was handled with result r
FlowHistory(c, u, r, st) ==
    /\ failRun' = [failRun EXCEPT ![c] =
                     IF u = "" THEN @
                     ELSE IF FailsAt(u, st)
                          THEN [step |-> st, n |-> IF @.step = st THEN @.n + 1 ELSE 1]
                          ELSE [step |-> 0, n |-> 0]]
    /\ turns' = [turns EXCEPT ![c] =
                     IF u = "" THEN (IF c \in DOMAIN call_states THEN @
                                     ELSE [total |-> 0, atStep |-> 0])
                     ELSE [total |-> (IF c \in DOMAIN call_states THEN @.total ELSE 0) + 1,
                           atStep |-> IF c \notin DOMAIN r.cs \/ r.cs[c].step # st THEN 0
                                      ELSE (IF c \in DOMAIN call_states THEN @.atStep ELSE 0) + 1]]
    /\ scen' = [scen EXCEPT ![c] =
                     [utterances |-> ScriptStep(@.utterances, ScriptUtterances, u),
                      callStart  |-> ScriptStep(@.callStart, ScriptCallStart, u)]]
    /\ made' = [made EXCEPT ![c] = @ \cup (DOMAIN r.apps \ DOMAIN appointments)]

\* lines 260-285: the state after generate_response returned r
Commit(c, u, r) ==
    /\ calls_handled' = calls_handled + 1
    /\ call_states' = r.cs
    /\ appointments' = r.apps
    /\ reply' = [prompt |-> r.prompt, complete |-> r.complete,
                 confirmation |-> r.confirmation, verbs |-> RenderTwiml(r.complete)]
    /\ FlowHistory(c, u, r, get_call_data(call_states, c).step)

\* lines 245-285: one webhook request.  generate_response raises nothing
\* on a string or absent SpeechResult, so the except branch is not taken.
HandleWebhook(c, u) ==
    Commit(c, u, generate_response(call_states, appointments, c, u))

\* the provider posts the next event of a call
Webhook(c, u) ==
    /\ calls_handled < MaxEvents
    /\ HandleWebhook(c, u)
    /\ last' = [call |-> c, speech |-> u, reply |-> reply',
                sess |-> SessionOf(call_states', c), apps |-> appointments']
    /\ dup' = FALSE
    /\ UNCHANGED <<clock, finalVars, turnVars, asyncVars, gatewayVars, smartVars, tenantVars, backendVars, prodVars, hybridVars, dbVars>>

\* the provider timed out and posts the latest event a second time
Redeliver ==
    /\ calls_handled < MaxEvents
    /\ last.call # ""
    /\ ~dup
    /\ HandleWebhook(last.call, last.speech)
    /\ dup' = TRUE
    /\ UNCHANGED <<last, clock>>
    /\ UNCHANGED <<finalVars, turnVars, asyncVars, gatewayVars, smartVars, tenantVars, backendVars, prodVars, hybridVars, dbVars>>

\* a second passes in which no request arrives: the process has no timer,
\* no background task and no handler of the end of a call, so nothing of
\* its state changes
Tick ==
    /\ clock' = 1 - clock
    /\ UNCHANGED <<call_states, appointments, calls_handled, reply, last, dup,
                   failRun, turns, scen, made>>
    /\ UNCHANGED <<finalVars, turnVars, asyncVars, gatewayVars, smartVars, tenantVars, backendVars, prodVars, hybridVars, dbVars>>

(***************************************************************************)
(* final_voiceai_system.py: VoiceAISystem, the orchestrator that derives   *)
(* the booking decision from the accumulated conversation history          *)
(* (smart_receptionist_app.py and hybrid_voice_system.py follow the same   *)
(* scheme: history kept per call_id, never cleared, booking branch taken   *)
(* whenever the history yields every field).                               *)
(***************************************************************************)
\* `k in s.lower()`
LowerContains(s, k) == Contains(Lower(s), k)

LowerContainsAny(s, words) == ContainsAny(Lower(s), words)

\* " ".join(parts)
RECURSIVE Join(_)
Join(parts) ==
    IF Len(parts) = 0 THEN ""
    ELSE IF Len(parts) = 1 THEN parts[1]
    ELSE parts[1] \o " " \o Join(Tail(parts))

\* the contents of the messages of a history, optionally of one role only
RECURSIVE ContentsOf(_, _)
ContentsOf(history, roles) ==
    IF Len(history) = 0 THEN <<>>
    ELSE (IF history[1].role \in roles THEN <<history[1].content>> ELSE <<>>)
         \o ContentsOf(Tail(history), roles)

\* the least element of a non-empty set of positions
Leftmost(ps) == CHOOSE i \in ps : \A j \in ps : i <= j

\* re.search(pattern, s): what the pattern, tried at one position by At,
\* yields at the leftmost position where it matches, or None
FirstAt(At(_, _), s, ps) == IF ps = {} THEN None ELSE At(s, Leftmost(ps))
Search(At(_, _), s) == FirstAt(At, s, {i \in 1..Len(s) : At(s, i) # None})

\* end of the greedy [a-z]+(?:\s+[a-z]+)* whose first word ends at e
RECURSIVE WordsEnd(_, _)
WordsEnd(s, e) ==
    IF SpaceRunEnd(s, e + 1) >= e + 1
       /\ LetterRunEnd(s, SpaceRunEnd(s, e + 1) + 1) >= SpaceRunEnd(s, e + 1) + 1
    THEN WordsEnd(s, LetterRunEnd(s, SpaceRunEnd(s, e + 1) + 1))
    ELSE e

\* \s+([A-Za-z]+(?:\s+[A-Za-z]+)*) tried at position j, e1 the end of the
\* run of spaces starting there: the text of group 1, or None
NameGroupAfter(s, j, e1) ==
    IF e1 < j \/ LetterRunEnd(s, e1 + 1) < e1 + 1 THEN None
    ELSE Some(SubSeq(s, e1 + 1, WordsEnd(s, LetterRunEnd(s, e1 + 1))))

\* line 92, one alternative of (?:my name is|i'm|this is|i am) at position i
PatientIntroAltAt(s, i, alt) ==
    IF StartsAt(s, i, alt)
    THEN NameGroupAfter(s, i + Len(alt), SpaceRunEnd(s, i + Len(alt)))
    ELSE None

\* line 92 tried at position i: the first alternative that matches
PatientIntroAt(s, i) ==
    IF \E k \in 1..Len(IntroPhrases) : PatientIntroAltAt(s, i, IntroPhrases[k]) # None
    THEN PatientIntroAltAt(s, i, IntroPhrases[
             Leftmost({k \in 1..Len(IntroPhrases) :
                          PatientIntroAltAt(s, i, IntroPhrases[k]) # None})])
    ELSE None

\* (?:\s+speaking|\s+here|\s*$) tried after a word that ends at e, t the end
\* of the run of spaces that follows it
NameTailMatches(s, e, t) ==
    \/ t >= e + 1 /\ StartsAt(s, t + 1, "speaking")
    \/ t >= e + 1 /\ StartsAt(s, t + 1, "here")
    \/ t = Len(s)

\* line 93: ([A-Za-z]+\s+[A-Za-z]+)(?:\s+speaking|\s+here|\s*$) tried at i,
\* e1 the end of the first word, e2 the end of the spaces after it
TwoWordTailFrom(s, i, e1, e2) ==
    IF e1 >= i /\ e2 >= e1 + 1 /\ LetterRunEnd(s, e2 + 1) >= e2 + 1
       /\ NameTailMatches(s, LetterRunEnd(s, e2 + 1),
                          SpaceRunEnd(s, LetterRunEnd(s, e2 + 1) + 1))
    THEN Some(SubSeq(s, i, LetterRunEnd(s, e2 + 1)))
    ELSE None

TwoWordTailAt(s, i) ==
    TwoWordTailFrom(s, i, LetterRunEnd(s, i), SpaceRunEnd(s, LetterRunEnd(s, i) + 1))

\* line 100: words whose presence in the candidate rejects it
PatientNameFillers == {"calling", "speaking", "here", "appointment"}

\* lines 97-102: the name a match yields (title-cased, rejected when it
\* holds a filler word)
UnlessFiller(name) ==
    IF ContainsAny(Lower(name), PatientNameFillers) THEN None ELSE Some(name)

FilteredName(m) == UnlessFiller(Title(m[1]))

\* lines 90-102 on the lower-cased conversation (the patterns ignore case
\* and .title() does not depend on the case of its input): the first
\* pattern that matches decides, also when its candidate is rejected
FirstNameMatch(m1, m2) ==
    IF m1 # None THEN FilteredName(m1)
    ELSE IF m2 # None THEN FilteredName(m2)
    ELSE None

PatientName(ls) == FirstNameMatch(Search(PatientIntroAt, ls), Search(TwoWordTailAt, ls))

\* line 107: (\(\d{3}\)\s*\d{3}[-.\s]?\d{4}) tried at position i, p the
\* position after the optional spaces
ParenPhoneFrom(s, i, p) ==
    IF ~AllDigits(s, p, p + 2) THEN None
    ELSE IF p + 3 <= Len(s) /\ IsPhoneSep(Ch(s, p + 3)) /\ AllDigits(s, p + 4, p + 7)
         THEN Some(SubSeq(s, i, p + 7))
         ELSE IF AllDigits(s, p + 3, p + 6) THEN Some(SubSeq(s, i, p + 6))
         ELSE None

ParenPhoneAt(s, i) ==
    IF StartsAt(s, i, "(") /\ AllDigits(s, i + 1, i + 3) /\ StartsAt(s, i + 4, ")")
    THEN ParenPhoneFrom(s, i, SpaceRunEnd(s, i + 5) + 1)
    ELSE None

\* lines 104-113
\* the first of two optional values that is present
OrElse(a, b) == IF a # None THEN a ELSE b

PatientPhone(s) == OrElse(SearchPhone(s), Search(ParenPhoneAt, s))

\* lines 115-129: the keyword table in the order the dict is iterated
AppointmentKeywords ==
    << [type |-> "cleaning",     words |-> {"cleaning", "clean", "hygiene", "maintenance"}],
       [type |-> "checkup",      words |-> {"checkup", "check", "exam", "examination", "routine"}],
       [type |-> "consultation", words |-> {"consultation", "consult", "new patient", "first time"}],
       [type |-> "emergency",    words |-> {"emergency", "urgent", "pain", "hurt", "broken", "lost filling"}] >>

\* the reason (None when no keyword occurs; appointment_type then keeps its
\* default "checkup")
FirstKeywordType(ks) ==
    IF ks = {} THEN None ELSE Some(AppointmentKeywords[Leftmost(ks)].type)

PatientReason(ls) ==
    FirstKeywordType({k \in 1..Len(AppointmentKeywords) :
                         ContainsAny(ls, AppointmentKeywords[k].words)})

\* \s*(?:AM|PM) tried at position j, t the end of the spaces starting
\* there: the index of the last character matched, or 0
MeridiemEnd(ls, t) ==
    IF StartsAt(ls, t + 1, "am") \/ StartsAt(ls, t + 1, "pm") THEN t + 2 ELSE 0

\* line 133: (\d{1,2}:\d{2}\s*(?:AM|PM)) tried at position i, c the index
\* of the colon: the span matched, or None
ClockTail(ls, i, c) ==
    IF AllDigits(ls, c + 1, c + 2) /\ MeridiemEnd(ls, SpaceRunEnd(ls, c + 3)) > 0
    THEN Some(<<i, MeridiemEnd(ls, SpaceRunEnd(ls, c + 3))>>)
    ELSE None

ClockAt(ls, i) ==
    IF AllDigits(ls, i, i + 1) /\ StartsAt(ls, i + 2, ":") THEN ClockTail(ls, i, i + 2)
    ELSE IF AllDigits(ls, i, i) /\ StartsAt(ls, i + 1, ":") THEN ClockTail(ls, i, i + 1)
    ELSE None

\* line 134: (\d{1,2}\s*(?:AM|PM)) tried at position i
HourAt(ls, i) ==
    IF AllDigits(ls, i, i + 1) /\ MeridiemEnd(ls, SpaceRunEnd(ls, i + 2)) > 0
    THEN Some(<<i, MeridiemEnd(ls, SpaceRunEnd(ls, i + 2))>>)
    ELSE IF AllDigits(ls, i, i) /\ MeridiemEnd(ls, SpaceRunEnd(ls, i + 1)) > 0
    THEN Some(<<i, MeridiemEnd(ls, SpaceRunEnd(ls, i + 1))>>)
    ELSE None

\* an alternation of literal words tried at position i
WordAltAt(ls, i, alts) ==
    IF \E k \in 1..Len(alts) : StartsAt(ls, i, alts[k])
    THEN Some(<<i, i + Len(alts[Leftmost({k \in 1..Len(alts) : StartsAt(ls, i, alts[k])})]) - 1>>)
    ELSE None

\* line 148: (\d{1,2}/\d{1,2}) tried at position i, c the index of the slash
SlashDateTail(ls, i, c) ==
    IF AllDigits(ls, c + 1, c + 2) THEN Some(<<i, c + 2>>)
    ELSE IF AllDigits(ls, c + 1, c + 1) THEN Some(<<i, c + 1>>)
    ELSE None

SlashDateAt(ls, i) ==
    IF AllDigits(ls, i, i + 1) /\ StartsAt(ls, i + 2, "/") THEN SlashDateTail(ls, i, i + 2)
    ELSE IF AllDigits(ls, i, i) /\ StartsAt(ls, i + 1, "/") THEN SlashDateTail(ls, i, i + 1)
    ELSE None

DayParts == <<"morning", "afternoon", "evening">>
WeekDays == <<"monday", "tuesday", "wednesday", "thursday", "friday", "saturday", "sunday">>
RelativeDays == <<"tomorrow", "today", "next week">>

\* re.search for an alternation of literal words: the leftmost span, or None
SearchWordAlt(ls, alts) == Search(LAMBDA s, i : WordAltAt(s, i, alts), ls)

\* match.group(0): the matched text in its original case
GroupZero(s, span) == IF span = None THEN None ELSE Some(SubSeq(s, span[1][1], span[1][2]))

\* lines 131-142.  The fourth pattern, (early|late)\s*(morning|afternoon),
\* can only match a text the third one matches, so it never decides.
PatientTime(s, ls) ==
    GroupZero(s, OrElse(Search(ClockAt, ls), OrElse(Search(HourAt, ls), SearchWordAlt(ls, DayParts))))

\* lines 144-154
PatientDate(s, ls) ==
    GroupZero(s, OrElse(SearchWordAlt(ls, WeekDays),
                        OrElse(SearchWordAlt(ls, RelativeDays), Search(SlashDateAt, ls))))

\* lines 72-156 on the joined user messages s and their lower-cased copy ls
PatientInfoWith(s, ls, reason) ==
    [name             |-> PatientName(ls),
     phone            |-> PatientPhone(s),
     preferred_date   |-> PatientDate(s, ls),
     preferred_time   |-> PatientTime(s, ls),
     appointment_type |-> IF reason = None THEN "checkup" ELSE reason[1],
     reason           |-> reason,
     urgency          |-> IF reason = Some("emergency") THEN "urgent" ELSE "routine"]

PatientInfoOf(s, ls) == PatientInfoWith(s, ls, PatientReason(ls))

JoinedUserText(history) == Join(ContentsOf(history, {"user"}))

\* lines 72-156
LoweredWith(s) == PatientInfoOf(s, Lower(s))

extract_patient_info(conversation_history) ==
    LoweredWith(JoinedUserText(conversation_history))

\* calendar_integration.py lines 124-131: the slots get_available_slots
\* returns on every date
AvailableSlots ==
    <<"9:00 AM", "9:30 AM", "10:00 AM", "11:00 AM", "11:30 AM",
      "2:00 PM", "3:00 PM", "3:30 PM", "4:00 PM", "4:30 PM">>

\* the value of an expression that raised instead of returning
Raised == [raised |-> TRUE]

\* lines 158-187.  patient_info always holds the key "preferred_time", so
\* .get("preferred_time", "") returns None when no time was extracted and
\* None.lower() raises AttributeError.
suggest_appointment_times(patient_info) ==
    IF patient_info.preferred_time = None THEN Raised
    ELSE IF Contains(Lower(patient_info.preferred_time[1]), "morning")
    THEN [raised |-> FALSE,
          text |-> "I have morning appointments at " \o AvailableSlots[1] \o ", "
                   \o AvailableSlots[2] \o ". Which works better?"]
    ELSE IF Contains(Lower(patient_info.preferred_time[1]), "afternoon")
    THEN [raised |-> FALSE,
          text |-> "For afternoon, I have " \o AvailableSlots[6] \o ", "
                   \o AvailableSlots[7] \o ". Which would you prefer?"]
    ELSE [raised |-> FALSE,
          text |-> "I have availability at " \o AvailableSlots[1] \o ", " \o AvailableSlots[2]
                   \o ", " \o AvailableSlots[3] \o ". Which time works best for you?"]

\* f"APT_{n:04d}"
AppointmentId(n) ==
    "APT_" \o Ch(DigitChars, ((n \div 1000) % 10) + 1) \o Ch(DigitChars, ((n \div 100) % 10) + 1)
           \o Ch(DigitChars, ((n \div 10) % 10) + 1) \o Ch(DigitChars, (n % 10) + 1)

\* calendar_integration.py lines 71-80
get_appointment_duration(appointment_type) ==
    CASE Lower(appointment_type) = "cleaning"     -> 30
      [] Lower(appointment_type) = "checkup"      -> 45
      [] Lower(appointment_type) = "consultation" -> 60
      [] Lower(appointment_type) = "emergency"    -> 30
      [] Lower(appointment_type) = "routine"      -> 45
      [] OTHER                                    -> 45

\* calendar_integration.py lines 31-65: the event stored in mock_events
\* (its start and end times are taken from the wall clock and left out)
CalendarEvent(appointment_data) ==
    [summary  |-> "Dental " \o Title(appointment_data.reason) \o " - " \o appointment_data.name,
     duration |-> get_appointment_duration(appointment_data.reason)]

\* lines 231-238
BookingData(patient_info) ==
    [name    |-> patient_info.name[1],
     phone   |-> patient_info.phone[1],
     reason  |-> patient_info.reason[1],
     time    |-> IF patient_info.preferred_time = None THEN "10:00 AM"
                 ELSE patient_info.preferred_time[1],
     date    |-> IF patient_info.preferred_date = None THEN "next available"
                 ELSE patient_info.preferred_date[1],
     urgency |-> patient_info.urgency]

\* lines 248-255: the turn is appended to the history of the call
Remember(cs, call_id, user_input, response) ==
    SetKey(cs, call_id,
           DictGet(cs, call_id, <<>>)
           \o << [role |-> "user", content |-> user_input],
                 [role |-> "assistant", content |-> response] >>)

\* a turn answered with `response` that created nothing
Answered(cs, apps, events, call_id, user_input, response) ==
    [raised |-> FALSE, response |-> response,
     cs |-> Remember(cs, call_id, user_input, response), apps |-> apps, events |-> events]

\* calendar_integration.py lines 187-207 and final_voiceai_system.py lines
\* 240-246: the appointment numbered n is stored with the calendar event
\* numbered e (created_at and the notes text are left out)
BookedText(data, n) ==
    "Perfect! I've scheduled your " \o data.reason \o " for " \o data.name
    \o ". We'll call " \o data.phone \o " to confirm. Your confirmation number is "
    \o AppointmentId(n) \o ". We'll send a reminder 24 hours before. Anything else?"

Booked(cs, apps, events, call_id, user_input, data, n, e) ==
    [raised |-> FALSE,
     response |-> BookedText(data, n),
     cs |-> Remember(cs, call_id, user_input, BookedText(data, n)),
     apps |-> SetKey(apps, AppointmentId(n),
                     [name |-> data.name, phone |-> data.phone, reason |-> data.reason,
                      time |-> data.time, date |-> data.date, urgency |-> data.urgency,
                      calendar_event_id |-> e, status |-> "confirmed"]),
     events |-> SetKey(events, e, CalendarEvent(data))]

\* lines 220-226: the answer of the time-scheduling branch
TimeAnswer(cs, apps, events, call_id, user_input, suggestion) ==
    IF suggestion.raised THEN Raised
    ELSE Answered(cs, apps, events, call_id, user_input, suggestion.text)

\* lines 198-255 for the history of the call and the information extracted
\* from it and the new input
RespondFromHistory(cs, apps, events, call_id, user_input, history, patient_info) ==
    IF Len(history) = 0
       \/ ~LowerContains(Join(ContentsOf(history, {"user", "assistant"})), "appointment")
    THEN IF LowerContains(user_input, "appointment") \/ LowerContains(user_input, "schedule")
         THEN Answered(cs, apps, events, call_id, user_input,
                  "I'd be happy to help you schedule an appointment! May I get your full name please?")
         ELSE Answered(cs, apps, events, call_id, user_input,
                  "Hello! I'm here to help with your dental needs. Are you looking to schedule an appointment today?")
    ELSE IF patient_info.name = None
    THEN Answered(cs, apps, events, call_id, user_input,
             "Thank you for calling! Could you please tell me your full name?")
    ELSE IF patient_info.phone = None
    THEN Answered(cs, apps, events, call_id, user_input,
             "Thank you, " \o patient_info.name[1] \o "! What's the best phone number to reach you?")
    ELSE IF patient_info.reason = None
    THEN Answered(cs, apps, events, call_id, user_input,
             "What brings you in? Are you looking for a cleaning, checkup, consultation, or is this an emergency?")
    ELSE IF patient_info.preferred_time = None
    THEN IF patient_info.urgency = "urgent"
         THEN Answered(cs, apps, events, call_id, user_input,
                  "For an emergency, I can fit you in today. Do you prefer morning or afternoon?")
         ELSE TimeAnswer(cs, apps, events, call_id, user_input,
                         suggest_appointment_times(patient_info))
    ELSE Booked(cs, apps, events, call_id, user_input, BookingData(patient_info),
                Cardinality(DOMAIN apps) + 1, Cardinality(DOMAIN events) + 1)

\* lines 189-257: VoiceAISystem.generate_response
history_generate_response(cs, apps, events, call_id, user_input) ==
    RespondFromHistory(cs, apps, events, call_id, user_input,
        DictGet(cs, call_id, <<>>),
        extract_patient_info(DictGet(cs, call_id, <<>>)
                             \o << [role |-> "user", content |-> user_input] >>))

\* lines 259-294: with an OpenAI client whose call returned ai_text the turn
\* is appended to the history and nothing else happens; without a client,
\* or when the call raised, the rule-based generate_response answers
generate_ai_response(cs, apps, events, call_id, user_input, openai) ==
    IF openai = None
    THEN history_generate_response(cs, apps, events, call_id, user_input)
    ELSE Answered(cs, apps, events, call_id, user_input, Strip(openai[1]))

\* lines 380-383
EndPhrases == {"confirmation number", "anything else", "have a great day",
               "thank you for calling", "goodbye"}

\* lines 385-398: the markup of the process endpoint
ConversationTwiml(ai_response) ==
    IF LowerContainsAny(ai_response, EndPhrases)
    THEN [status |-> 200,
          say |-> <<ai_response,
                    "Thank you for choosing Demo Dental Practice. Have a wonderful day!">>,
          verbs |-> <<"Say", "Pause", "Say", "Hangup">>]
    ELSE [status |-> 200, say |-> <<ai_response>>, verbs |-> <<"Say", "Record">>]

\* the response the framework sends when the handler raised
ServerError == [status |-> 500, say |-> <<>>, verbs |-> <<>>]

(***************************************************************************)
(* final_voiceai_system.py: state and webhook handlers                     *)
(***************************************************************************)
\* the call_id of a request: CallSid or "unknown" (line 371)
HistoryCallIds == {"CA1", "unknown"}
CallSidInputs == {Some("CA1"), None}

\* the requests of two concurrent telephone calls as <<call, CallSid field>>:
\* those of call CA1 carry its CallSid or lack the field, those of call CB1
\* lack it
CallRequests == {<<"CA1", Some("CA1")>>, <<"CA1", None>>, <<"CB1", None>>}

\* the TranscriptionText values of the model (None: the field is absent)
U_WHO == "My name is Jane Doe, 555-123-4567"
U_VISIT == "a cleaning in the morning"
Transcriptions == {None, Some(U_WHO), Some(U_CLEAN), Some(U_VISIT)}

\* line 372: the text used when the request carries no transcription
DefaultTranscription == "I'd like to schedule an appointment"

\* the replies the OpenAI call of generate_ai_response returns in the model
OpenAiReplies == {" Sure, which day works best for you? "}

\* the outcomes of the OpenAI call: None when it raised
OpenAiOutcomes == {None} \cup {Some(t) : t \in OpenAiReplies}

FinalInit ==
    /\ fv_call_states = <<>>
    /\ fv_appointments = <<>>
    /\ mock_events = <<>>
    /\ fv_reply = [status |-> 0, say |-> <<>>, verbs |-> <<>>]
    /\ fv_made = [c \in HistoryCallIds |-> {}]
    /\ fv_writers = [c \in HistoryCallIds |-> {}]
    /\ fv_handled = 0

\* lines 376-400: the state after generate_ai_response returned r or raised
\* (nothing in process_conversation catches an exception, so the framework
\* answers with status 500 and the state keeps what was written before)
FinishConversation(call, call_id, r) ==
    IF r.raised
    THEN /\ fv_reply' = ServerError
         /\ UNCHANGED <<fv_call_states, fv_appointments, mock_events, fv_made, fv_writers>>
    ELSE /\ fv_reply' = ConversationTwiml(r.response)
         /\ fv_call_states' = r.cs
         /\ fv_appointments' = r.apps
         /\ mock_events' = r.events
         /\ fv_made' = [fv_made EXCEPT ![call_id] =
                           @ \cup (DOMAIN r.apps \ DOMAIN fv_appointments)]
         /\ fv_writers' = [id \in HistoryCallIds |->
                             IF SessionOf(r.cs, id) # SessionOf(fv_call_states, id)
                             THEN fv_writers[id] \cup {call} ELSE fv_writers[id]]

\* lines 362-400: POST /api/v1/voice/{tenant_id}/process
process_conversation(call, CallSid, TranscriptionText, openai) ==
    /\ fv_handled < MaxProcessed
    /\ openai # None => client
    /\ fv_handled' = fv_handled + 1
    /\ FinishConversation(call,
           IF CallSid = None THEN "unknown" ELSE CallSid[1],
           generate_ai_response(fv_call_states, fv_appointments, mock_events,
               IF CallSid = None THEN "unknown" ELSE CallSid[1],
               IF TranscriptionText = None THEN DefaultTranscription ELSE TranscriptionText[1],
               openai))
    /\ UNCHANGED <<client, flowVars, turnVars, asyncVars, gatewayVars, smartVars, tenantVars, backendVars, prodVars, hybridVars, dbVars>>

\* lines 319-360: POST /api/v1/voice/{tenant_id}; without a CallSid the
\* call_id is "call_<n>", which is no key of call_states in the model
voice_webhook(CallSid, CallStatus) ==
    /\ fv_reply' =
         IF CallStatus \in {"ringing", "in-progress"}
         THEN IF CallSid = None \/ CallSid[1] \notin DOMAIN fv_call_states
              THEN [status |-> 200,
                    say |-> <<"Thank you for calling Demo Dental Practice! I'm your AI scheduling assistant. How can I help you today?">>,
                    verbs |-> <<"Say", "Record">>]
              ELSE [status |-> 200, say |-> <<>>, verbs |-> <<"Record">>]
         ELSE [status |-> 200,
               say |-> <<"Hello! You've reached Demo Dental Practice. I'm here to help schedule your appointment. How may I assist you?">>,
               verbs |-> <<"Say", "Record">>]
    /\ UNCHANGED <<fv_call_states, fv_appointments, mock_events, client, fv_made,
                   fv_writers, fv_handled>>
    /\ UNCHANGED <<flowVars, turnVars, asyncVars, gatewayVars, smartVars, tenantVars, backendVars, prodVars, hybridVars, dbVars>>

(***************************************************************************)
(* app/services/ai_service.py, app/services/voice_service.py,              *)
(* app/utils/twilio_utils.py, app/api/v1/endpoints/voice.py: one voice     *)
(* turn of the multi-tenant service.  Confidence values and thresholds are *)
(* integers in ten-thousandths: every confidence the code computes is a    *)
(* sum of 0.8, -0.2, -0.3, 0.1 whose float value is not below the exact    *)
(* one, so `confidence < threshold` agrees with the exact comparison.      *)
(***************************************************************************)
\* int(s) for a string of decimal digits
RECURSIVE NatOf(_)
NatOf(s) ==
    IF Len(s) = 0 THEN 0
    ELSE NatOf(SubSeq(s, 1, Len(s) - 1)) * 10 + (IndexIn(DigitChars, Ch(s, Len(s))) - 1)

RECURSIVE PowerOfTen(_)
PowerOfTen(n) == IF n = 0 THEN 1 ELSE 10 * PowerOfTen(n - 1)

\* float(s) for a decimal numeral with the point at position p (p = 0: no
\* point), in ten-thousandths; None stands for the ValueError
DecimalAt(s, p) ==
    IF p = 0
    THEN IF Len(s) > 0 /\ AllDigits(s, 1, Len(s)) THEN Some(NatOf(s) * 10000) ELSE None
    ELSE IF Len(s) > 1 /\ Len(s) - p <= 4
            /\ \A k \in (1..Len(s)) \ {p} : IsDigit(Ch(s, k))
         THEN Some(NatOf(SubSeq(s, 1, p - 1)) * 10000
                   + NatOf(SubSeq(s, p + 1, Len(s))) * PowerOfTen(4 - (Len(s) - p)))
         ELSE None

\* voice_service.py line 115: float(voice_config.confidence_threshold); the
\* column is a string of at most five characters (voice_config.py line 63)
ParseFloat(s) ==
    IF \E p \in 1..Len(s) : Ch(s, p) = "."
    THEN DecimalAt(s, Leftmost({p \in 1..Len(s) : Ch(s, p) = "."}))
    ELSE DecimalAt(s, 0)

\* ai_service.py lines 272-275
GenericPhrases ==
    {"i'm sorry", "i don't understand", "could you repeat", "can you clarify", "i'm not sure"}

\* ai_service.py lines 280-284
SpecificIndicators ==
    {"appointment", "schedule", "available", "book", "confirm",
     "monday", "tuesday", "wednesday", "thursday", "friday",
     "morning", "afternoon", "evening", "am", "pm"}

Max(a, b) == IF a >= b THEN a ELSE b
Min(a, b) == IF a <= b THEN a ELSE b

\* (mutant) the result is not clamped and a generic reply loses the whole
\* base confidence
ConfidenceOf_mut(ai_response, response_lower) ==
    8000 - (IF Len(Strip(ai_response)) < 20 THEN 2000 ELSE 0)
         - (IF ContainsAny(response_lower, GenericPhrases) THEN 8000 ELSE 0)
         + (IF ContainsAny(response_lower, SpecificIndicators) THEN 1000 ELSE 0)

\* ai_service.py lines 260-289: _calculate_confidence
ConfidenceOf(ai_response, response_lower) ==
    Max(1000, Min(10000,
        8000 - (IF Len(Strip(ai_response)) < 20 THEN 2000 ELSE 0)
             - (IF ContainsAny(response_lower, GenericPhrases) THEN 3000 ELSE 0)
             + (IF ContainsAny(response_lower, SpecificIndicators) THEN 1000 ELSE 0)))

calculate_confidence(ai_response) == ConfidenceOf(ai_response, Lower(ai_response))

\* ai_service.py lines 336-339 and 342-344
ScheduleKeywords ==
    {"schedule", "book", "appointment", "reserve", "set up", "make an appointment",
     "need to see", "want to come in", "available", "when can i"}
CancelKeywords == {"cancel", "reschedule", "move", "change", "postpone", "different time"}

\* \w
IsWordChar(c) == IsLower(c) \/ IsUpper(c) \/ IsDigit(c) \/ c = "_"

\* \b between positions i - 1 and i of s
BoundaryAt(s, i) ==
    (i >= 2 /\ i - 1 <= Len(s) /\ IsWordChar(Ch(s, i - 1)))
        # (i >= 1 /\ i <= Len(s) /\ IsWordChar(Ch(s, i)))

\* \b(w1|w2|...)\b matches somewhere in s
HasBoundedWord(s, words) ==
    \E w \in words : \E i \in 1..Len(s) :
        StartsAt(s, i, w) /\ BoundaryAt(s, i) /\ BoundaryAt(s, i + Len(w))

\* \b(\d{1,2}:\d{2})\s*(am|pm)?\b matches at position i, c the index of
\* the colon
ClockRefTail(s, c) ==
    /\ AllDigits(s, c + 1, c + 2)
    /\ \/ BoundaryAt(s, c + 3)
       \/ MeridiemEnd(s, SpaceRunEnd(s, c + 3)) > 0
          /\ BoundaryAt(s, MeridiemEnd(s, SpaceRunEnd(s, c + 3)) + 1)

ClockRefAt(s, i) ==
    /\ BoundaryAt(s, i)
    /\ \/ AllDigits(s, i, i + 1) /\ StartsAt(s, i + 2, ":") /\ ClockRefTail(s, i + 2)
       \/ AllDigits(s, i, i) /\ StartsAt(s, i + 1, ":") /\ ClockRefTail(s, i + 1)

\* \b(\d{1,2})\s*(am|pm)\b matches at position i
HourRefAt(s, i) ==
    /\ BoundaryAt(s, i)
    /\ \E n \in 1..2 :
          /\ AllDigits(s, i, i + n - 1)
          /\ MeridiemEnd(s, SpaceRunEnd(s, i + n)) > 0
          /\ BoundaryAt(s, MeridiemEnd(s, SpaceRunEnd(s, i + n)) + 1)

\* ai_service.py lines 347-353 and 369-376: some time pattern finds a match
HasTimeReference(s) ==
    \/ HasBoundedWord(s, {"monday", "tuesday", "wednesday", "thursday", "friday",
                          "saturday", "sunday"})
    \/ \E i \in 1..Len(s) : ClockRefAt(s, i)
    \/ \E i \in 1..Len(s) : HourRefAt(s, i)
    \/ HasBoundedWord(s, {"morning", "afternoon", "evening", "noon"})
    \/ HasBoundedWord(s, {"next week", "this week", "tomorrow", "today"})

\* ai_service.py lines 326-378 on the lower-cased text
IntentOf(text_lower) ==
    [intent |-> IF ContainsAny(text_lower, ScheduleKeywords) THEN "schedule"
                ELSE IF ContainsAny(text_lower, CancelKeywords) THEN "cancel_reschedule"
                ELSE "unknown",
     confidence |-> (IF ContainsAny(text_lower, ScheduleKeywords \cup CancelKeywords)
                     THEN 8000 ELSE 0)
                    + (IF HasTimeReference(text_lower) THEN 1000 ELSE 0)]

detect_appointment_intent(text) == IntentOf(Lower(text))

\* voice_service.py lines 306-320
TestPhrases == {"test", "testing", "123", "hello test", "check check",
                "one two three", "can you hear me"}

IsConfused(text_lower) == Len(text_lower) < 3 \/ text_lower \in TestPhrases

is_confused_input(text) == IsConfused(Strip(Lower(text)))

\* the texts the service speaks itself
EmptyInputText == "I didn't catch that. Could you please repeat what you need help with?"
ConfusedInputText ==
    "I'm here to help with your dental appointment needs. How can I assist you today?"
LowConfidenceText ==
    "I want to make sure I help you correctly. Let me transfer you to one of our team members who can better assist you."
TurnErrorText ==
    "I'm sorry, I'm having technical difficulties. Please try again or speak with a human representative."

\* calendar_service.py lines 62-88: the first three slots, a text that
\* depends on the date of the call
SlotText ==
    "Monday, June 02 at 09:00 AM, Monday, June 02 at 09:30 AM, Monday, June 02 at 10:00 AM"

\* voice_service.py lines 383-410
enhance_response_with_scheduling(ai_response, slots_found) ==
    IF slots_found
    THEN ai_response \o " I have these times available: " \o SlotText
         \o ". Which would work best for you?"
    ELSE ai_response \o " Let me check our availability and get back to you with some options."

\* the confidence_threshold texts a tenant may have stored ("0.7" is the
\* column default)
ThresholdTexts == {"0.7", "0.5", "0.95", "high"}
VoiceConfigs == [confidence_threshold : ThresholdTexts, fallback_to_human : BOOLEAN]

\* the transcripts the speech-to-text call returns in the model
T_BOOK  == "I need to book an appointment tomorrow"
T_HOURS == "What are your hours"
SttTexts == {"", "ok", T_BOOK, T_HOURS}
SttOutcomes == {None} \cup {Some(t) : t \in SttTexts}

\* the replies the chat completion returns in the model
AiReplies == {"I'm not sure.",
              "Could you repeat that please?",
              "We open at nine.",
              "Our office is on Main Street.",
              "You can book a morning appointment."}
AiOutcomes == {None} \cup {Some(t) : t \in AiReplies}

\* The pure steps of a turn on the texts of the model, computed once:
\* voice_service.py line 96 (the confusion test on the stripped transcript),
\* line 122 (the intent of the transcript), ai_service.py line 160 (the
\* confidence of the stripped reply) and voice_service.py line 115 (the
\* threshold parsed from the configuration)
ConfusedTranscript == [t \in SttTexts |-> is_confused_input(Strip(t))]
TranscriptIntent == [t \in SttTexts |-> detect_appointment_intent(Strip(t))]
ReplyConfidence == [t \in AiReplies |-> calculate_confidence(Strip(t))]
ParsedThreshold == [s \in ThresholdTexts |-> ParseFloat(s)]

\* what a turn learned from the AI service (None: the AI was not reached)
NoTrace == [ai_response |-> None, confidence |-> None, threshold |-> None]

\* voice_service.py lines 174-189: the except branch of process_voice_turn.
\* db.rollback() restores db0; when the connection is gone the rollback
\* raises and the exception leaves process_voice_turn.
TurnFailed(db0, env, trace) ==
    IF env.db = "down" THEN [raised |-> TRUE, trace |-> trace]
    ELSE [raised |-> FALSE,
          result |-> [success |-> FALSE, text_response |-> TurnErrorText,
                      transfer_to_human |-> FALSE],
          db |-> db0, committed |-> FALSE, trace |-> trace]

\* voice_service.py lines 322-381: a text of the service itself is turned
\* into speech and returned (no commit); a TTS failure raises
SpeakFixed(db0, db1, env, text, transfer, trace) ==
    IF env.tts = "error" THEN TurnFailed(db0, env, trace)
    ELSE [raised |-> FALSE,
          result |-> [success |-> TRUE, text_response |-> text,
                      transfer_to_human |-> transfer],
          db |-> db1, committed |-> FALSE, trace |-> trace]

\* voice_service.py lines 130-172: steps 7 and 8, the reply is turned into
\* speech, the call log and the customer are updated and committed
SpeakReply(db0, db1, env, text, trace) ==
    IF env.tts = "error" \/ env.db = "commit_error" THEN TurnFailed(db0, env, trace)
    ELSE [raised |-> FALSE,
          result |-> [success |-> TRUE, text_response |-> text,
                      transfer_to_human |-> FALSE],
          db |-> [customer |-> Some(db1.customer[1] + 1),
                  call_log |-> Some([total_turns |-> db1.call_log[1].total_turns + 1,
                                     ai_response |-> text])],
          committed |-> TRUE, trace |-> trace]

\* voice_service.py line 125
WantsSchedule(intent_result) ==
    intent_result.intent = "schedule" /\ intent_result.confidence > 7000

\* voice_service.py lines 114-128: steps 4 to 6
AfterAi(config, db0, db1, env, intent_result, ai_response, trace) ==
    IF trace.threshold = None THEN TurnFailed(db0, env, trace)
    ELSE IF trace.confidence[1] < trace.threshold[1] /\ config.fallback_to_human
    THEN SpeakFixed(db0, db1, env, LowConfidenceText, TRUE, trace)
    ELSE IF WantsSchedule(intent_result)
    THEN SpeakReply(db0, db1, env,
                    enhance_response_with_scheduling(ai_response, env.slots), trace)
    ELSE SpeakReply(db0, db1, env, ai_response, trace)

\* voice_service.py lines 85-112: steps 1 to 3
AfterLookup(config, db0, db1, env) ==
    IF env.stt = None THEN TurnFailed(db0, env, NoTrace)
    ELSE IF Strip(env.stt[1]) = "" THEN SpeakFixed(db0, db1, env, EmptyInputText, FALSE, NoTrace)
    ELSE IF ConfusedTranscript[env.stt[1]]
    THEN SpeakFixed(db0, db1, env, ConfusedInputText, FALSE, NoTrace)
    ELSE IF env.ai = None THEN TurnFailed(db0, env, NoTrace)
    ELSE AfterAi(config, db0, db1, env, TranscriptIntent[env.stt[1]], Strip(env.ai[1]),
                 [ai_response |-> Some(Strip(env.ai[1])),
                  confidence |-> Some(ReplyConfidence[env.ai[1]]),
                  threshold |-> ParsedThreshold[config.confidence_threshold]])

\* voice_service.py lines 75-83 and 236-304: the customer and the call log of the
\* call are looked up and created (flushed, not committed) when missing
WithRows(rows) ==
    [customer |-> IF rows.customer = None THEN Some(0) ELSE rows.customer,
     call_log |-> IF rows.call_log = None THEN Some([total_turns |-> 0, ai_response |-> ""])
                  ELSE rows.call_log]

\* voice_service.py lines 40-189.  env holds what the services the turn
\* calls do: stt (the transcript, None: the call raised), ai (the reply,
\* None: raised), slots (the calendar has slots), tts ("ok" / "error") and
\* db ("ok", "error": the first statement raises, "commit_error": the
\* commit raises, "down": the statements and the rollback raise)
process_voice_turn(config, rows, env) ==
    IF env.db \in {"error", "down"} THEN TurnFailed(rows, env, NoTrace)
    ELSE AfterLookup(config, rows, WithRows(rows), env)

\* twilio_utils.py lines 90-180: the verbs create_twiml_response emits
create_twiml_response(message, gather_input, dial_number, hangup) ==
    (IF message # "" THEN <<"Say">> ELSE <<>>)
    \o (IF dial_number THEN <<"Dial", "Say">>
        ELSE IF gather_input /\ ~hangup THEN <<"Gather", "Say", "Redirect">>
        ELSE <<>>)
    \o (IF hangup THEN <<"Hangup">> ELSE <<>>)

\* a response carrying markup
Twiml(message, gather_input, dial_number, hangup) ==
    [status |-> 200, message |-> message,
     verbs |-> create_twiml_response(message, gather_input, dial_number, hangup)]

\* a bare error status (an HTTPException that leaves the handler)
HttpError(code) == [status |-> code, message |-> "", verbs |-> <<>>]

(***************************************************************************)
(* app/api/v1/endpoints/voice.py: the gather webhook of the service        *)
(***************************************************************************)

\* tenants: t1 is active and configured, t2 is active without a voice
\* configuration, tx is unknown
TenantIds == {"t1", "t2", "tx"}

ServiceOutcomes == [stt : SttOutcomes, ai : AiOutcomes, slots : BOOLEAN,
                    tts : {"ok", "error"}, db : {"ok", "error", "commit_error", "down"}]

\* the services a turn reaches under the outcomes e (voice_service.py lines
\* 84-130)
ReachesStt(e) == e.db \notin {"error", "down"}
ReachesAi(e) ==
    /\ ReachesStt(e)
    /\ e.stt # None
    /\ Strip(e.stt[1]) # ""
    /\ ~ConfusedTranscript[e.stt[1]]
ReachesSlots(e) == ReachesAi(e) /\ e.ai # None /\ WantsSchedule(TranscriptIntent[e.stt[1]])
ReachesTts(e) == ReachesStt(e) /\ e.stt # None /\ (ReachesAi(e) => e.ai # None)
ReachesCommit(e) == ReachesAi(e) /\ e.ai # None

\* the outcome of a service the turn does not reach is fixed, so that each
\* course of a turn is listed once
OneCourse(e) ==
    /\ ~ReachesStt(e) => e.stt = None
    /\ ~ReachesAi(e) => e.ai = None
    /\ ~ReachesSlots(e) => ~e.slots
    /\ ~ReachesTts(e) => e.tts = "ok"
    /\ ~ReachesCommit(e) => e.db # "commit_error"

\* the environments of a turn (a set enumerated once)
TurnEnvs == {e : e \in {x \in ServiceOutcomes : OneCourse(x)}}

EmptyDb == [customer |-> None, call_log |-> None]
NoResponse == [status |-> 0, message |-> "", verbs |-> <<>>]

TurnInit ==
    /\ db = EmptyDb
    /\ vt_reply = NoResponse
    /\ vt_trace = NoTrace
    /\ vt_handled = 0

GatherErrorText ==
    "I'm having trouble processing your request. Let me connect you with someone who can help."

\* voice.py lines 164-178: the markup for the result of the turn
TurnTwiml(response_result) ==
    IF response_result.transfer_to_human
    THEN Twiml(response_result.text_response, TRUE, TRUE, TRUE)
    ELSE Twiml(response_result.text_response, TRUE, FALSE, FALSE)

\* voice.py lines 136-194 after process_voice_turn returned r or raised:
\* the generic except branch answers with a dial to the support number,
\* otherwise get_db commits what the turn flushed
FinishGather(r) ==
    /\ vt_trace' = r.trace
    /\ IF r.raised
       THEN /\ vt_reply' = Twiml(GatherErrorText, TRUE, TRUE, TRUE)
            /\ UNCHANGED db
       ELSE /\ vt_reply' = TurnTwiml(r.result)
            /\ db' = r.db

\* voice.py lines 293-325 after process_voice_turn returned r
\* or raised inside _process_audio_recording, which catches everything
FinishRecording(r) ==
    /\ vt_trace' = r.trace
    /\ IF r.raised
       THEN /\ vt_reply' = Twiml("I'm having trouble processing your audio. Could you please repeat that?",
                                 TRUE, FALSE, FALSE)
            /\ UNCHANGED db
       ELSE /\ vt_reply' = TurnTwiml(r.result)
            /\ db' = r.db

\* voice.py lines 98-194 with a SpeechResult
GatherSpeech(env) ==
    /\ vt_handled < MaxTurnRequests
    /\ vt_handled' = vt_handled + 1
    /\ FinishGather(process_voice_turn(voice_config, db, env))
    /\ UNCHANGED <<voice_config, flowVars, finalVars, asyncVars, gatewayVars, smartVars, tenantVars, backendVars, prodVars, hybridVars, dbVars>>

\* voice.py lines 98-194 with a RecordingUrl only, the recording downloaded
GatherRecording(env) ==
    /\ vt_handled < MaxTurnRequests
    /\ vt_handled' = vt_handled + 1
    /\ FinishRecording(process_voice_turn(voice_config, db, env))
    /\ UNCHANGED <<voice_config, flowVars, finalVars, asyncVars, gatewayVars, smartVars, tenantVars, backendVars, prodVars, hybridVars, dbVars>>

\* voice.py lines 98-194 with a RecordingUrl only, the download of the
\* recording raised
GatherRecordingLost ==
    /\ vt_handled < MaxTurnRequests
    /\ vt_handled' = vt_handled + 1
    /\ FinishRecording([raised |-> TRUE, trace |-> NoTrace])
    /\ UNCHANGED <<voice_config, flowVars, finalVars, asyncVars, gatewayVars, smartVars, tenantVars, backendVars, prodVars, hybridVars, dbVars>>

NoInputText == "I didn't receive any input. Could you please try again?"

\* voice.py lines 157-162: neither SpeechResult nor RecordingUrl
GatherNoInput ==
    /\ vt_handled < MaxTurnRequests
    /\ vt_handled' = vt_handled + 1
    /\ vt_reply' = Twiml(NoInputText, TRUE, FALSE, FALSE)
    /\ vt_trace' = NoTrace
    /\ UNCHANGED <<voice_config, db, flowVars, finalVars, asyncVars, gatewayVars, smartVars, tenantVars, backendVars, prodVars, hybridVars, dbVars>>

\* voice.py lines 123-134 and 183-184: the signature is invalid (401), the
\* tenant is unknown or has no voice configuration (404); the HTTPException
\* is re-raised
GatherRejected(signature_ok, tenant_id) ==
    /\ vt_handled < MaxTurnRequests
    /\ ~signature_ok \/ tenant_id # "t1"
    /\ vt_handled' = vt_handled + 1
    /\ vt_reply' = IF ~signature_ok THEN HttpError(401) ELSE HttpError(404)
    /\ vt_trace' = NoTrace
    /\ UNCHANGED <<voice_config, db, flowVars, finalVars, asyncVars, gatewayVars, smartVars, tenantVars, backendVars, prodVars, hybridVars, dbVars>>

(***************************************************************************)
(* app/tasks/voice_tasks.py and app/api/v1/endpoints/voice_async.py: the   *)
(* background job and the endpoint that polls it                           *)
(***************************************************************************)
\* voice_tasks.py lines 24-25
max_retries == 3
default_retry_delay == 10

TaskIds == 1..MaxTasks

\* a task id the broker has not seen: AsyncResult reports it PENDING
NoTask == [sent |-> FALSE, status |-> "PENDING", retries |-> 0, failures |-> 0,
           countdown |-> 0, result |-> None]

\* what the services do while a job runs, in the model
InJob(e) ==
    \/ e.db = "down"
    \/ /\ e.db = "ok"
       /\ e.stt = Some(T_HOURS)
       /\ e.ai \in {None, Some("I'm not sure."), Some("Our office is on Main Street.")}

JobEnvs == {e : e \in {x \in TurnEnvs : InJob(x)}}

AsyncConfigs == {c \in VoiceConfigs : c.confidence_threshold = "0.7"}

AsyncInit ==
    /\ tasks = [t \in TaskIds |-> NoTask]
    /\ expired = {}
    /\ va_reply = NoResponse
    /\ va_last = [task |-> 0, signature_ok |-> TRUE, status |-> "", result |-> None,
                  reply |-> NoResponse]

RECURSIVE PowerOfTwo(_)
PowerOfTwo(n) == IF n = 0 THEN 1 ELSE 2 * PowerOfTwo(n - 1)

\* voice_async.py lines 269-296: process_voice_async.delay(...) queued the
\* task t and the caller is told to wait
ProcessInputAsync(t) ==
    /\ ~tasks[t].sent
    /\ \A u \in TaskIds : u < t => tasks[u].sent
    /\ tasks' = [tasks EXCEPT ![t] = [NoTask EXCEPT !.sent = TRUE]]
    /\ va_reply' = Twiml("Let me think about that for a moment...", FALSE, FALSE, FALSE)
    /\ UNCHANGED <<va_last, db, voice_config, vt_reply, vt_trace, vt_handled, flowVars, finalVars, gatewayVars, smartVars, tenantVars, backendVars, prodVars, hybridVars, dbVars>>

\* voice_async.py lines 121-172: a request that queues nothing - without
\* input the caller is asked again; an invalid signature, an unknown tenant
\* and a broker that refuses the task all end in the except branch, which
\* answers with a dial to the support number
ProcessInputRefused(has_input) ==
    /\ va_reply' = IF has_input THEN Twiml(GatherErrorText, TRUE, TRUE, TRUE)
                   ELSE Twiml("I didn't receive any input. Could you please try again?",
                              TRUE, FALSE, FALSE)
    /\ UNCHANGED <<tasks, va_last, db, voice_config, vt_reply, vt_trace, vt_handled, flowVars, finalVars, gatewayVars, smartVars, tenantVars, backendVars, prodVars, hybridVars, dbVars>>

\* voice_tasks.py lines 50-63: a worker takes the task (first delivery or a
\* retry whose countdown has passed) and sets the state PROCESSING
StartTask(t) ==
    /\ tasks[t].sent
    /\ tasks[t].status \in {"PENDING", "RETRY"}
    /\ tasks' = [tasks EXCEPT ![t].status = "PROCESSING"]
    /\ UNCHANGED <<va_reply, va_last, db, voice_config, vt_reply, vt_trace, vt_handled, flowVars, finalVars, gatewayVars, smartVars, tenantVars, backendVars, prodVars, hybridVars, dbVars>>

\* the result dict of a finished turn as the result backend stores it
StoredResult(result) ==
    Some([success |-> result.success, text_response |-> Some(result.text_response),
          transfer_to_human |-> result.transfer_to_human])

\* voice_tasks.py lines 101-105: the dict returned when no retry is left; it
\* has no "text_response" and no "transfer_to_human"
ExhaustedResult ==
    Some([success |-> FALSE, text_response |-> None, transfer_to_human |-> FALSE])

AttemptFailed_mut(task) == [task EXCEPT !.status = "RETRY"]
\* voice_tasks.py lines 88-105: the attempt raised
AttemptFailed(task) ==
    IF task.retries < max_retries
    THEN [task EXCEPT !.status = "RETRY",
                      !.failures = task.failures + 1,
                      !.countdown = default_retry_delay * PowerOfTwo(task.retries),
                      !.retries = task.retries + 1]
    ELSE [task EXCEPT !.status = "SUCCESS",
                      !.failures = task.failures + 1,
                      !.result = ExhaustedResult]

\* voice_tasks.py lines 65-86 and 263-310: the attempt ends.  The job
\* raises when the tenant or its configuration cannot be read or when
\* process_voice_turn raises; a session that was not committed is dropped.
FinishAttempt(t, r) ==
    IF r.raised
    THEN /\ tasks' = [tasks EXCEPT ![t] = AttemptFailed(tasks[t])]
         /\ UNCHANGED db
    ELSE /\ tasks' = [tasks EXCEPT ![t].status = "SUCCESS",
                                   ![t].result = StoredResult(r.result)]
         /\ db' = IF r.committed THEN r.db ELSE db

FinishTask(t, env, tenant_read) ==
    /\ tasks[t].status = "PROCESSING"
    /\ FinishAttempt(t, IF tenant_read THEN process_voice_turn(voice_config, db, env)
                        ELSE [raised |-> TRUE, trace |-> NoTrace])
    /\ UNCHANGED <<va_reply, va_last, voice_config, vt_reply, vt_trace, vt_handled,
                   flowVars, finalVars, gatewayVars, smartVars, tenantVars, backendVars, prodVars, hybridVars, dbVars>>

\* the worker process executing the task is lost: the result backend
\* records FAILURE for the task
WorkerLost(t) ==
    /\ tasks[t].status = "PROCESSING"
    /\ tasks' = [tasks EXCEPT ![t].status = "FAILURE"]
    /\ UNCHANGED <<va_reply, va_last, db, voice_config, vt_reply, vt_trace, vt_handled, flowVars, finalVars, gatewayVars, smartVars, tenantVars, backendVars, prodVars, hybridVars, dbVars>>

\* celery_app.py line 46 (result_expires=3600): an hour after the result of
\* a finished task was stored the backend drops it
ExpireResult(t) ==
    /\ tasks[t].status \in {"SUCCESS", "FAILURE"}
    /\ t \notin expired
    /\ expired' = expired \cup {t}
    /\ UNCHANGED <<flowVars, finalVars, turnVars, asyncVars, gatewayVars, smartVars, tenantVars, prodVars, hybridVars, dbVars>>

\* voice_tasks.py lines 403-412: AsyncResult reports a task id of which the
\* backend holds nothing as PENDING
get_voice_task_status(t) ==
    IF t \in expired THEN [status |-> "PENDING", result |-> None]
    ELSE [status |-> tasks[t].status,
          result |-> IF tasks[t].status \in {"SUCCESS", "FAILURE"} THEN tasks[t].result
                     ELSE None]

HoldText == "I'm still processing your request. Please hold on just a moment."
PollFailureText ==
    "I'm sorry, I encountered an error processing your request. Let me transfer you to someone who can help."
PollErrorText == "I'm sorry, there was an error. Please call back later."

\* voice_async.py lines 175-247: the markup for the status read
PollTwiml(task_status) ==
    IF task_status.status = "SUCCESS"
    THEN IF task_status.result[1].text_response = None
         THEN Twiml(PollErrorText, TRUE, FALSE, TRUE)
         ELSE IF task_status.result[1].transfer_to_human
         THEN Twiml(task_status.result[1].text_response[1], TRUE, TRUE, TRUE)
         ELSE Twiml(task_status.result[1].text_response[1], TRUE, FALSE, FALSE)
    ELSE IF task_status.status = "FAILURE"
    THEN Twiml(PollFailureText, TRUE, TRUE, TRUE)
    ELSE Twiml(HoldText, FALSE, FALSE, FALSE)

\* voice_async.py lines 175-247: POST .../check-result/{task_id}; the
\* handler takes the request but never passes it to validate_twilio_signature,
\* so signature_ok (whether the provider signed the request) is not read
check_processing_result(t, signature_ok) ==
    /\ va_reply' = PollTwiml(get_voice_task_status(t))
    /\ va_last' = [task |-> t, signature_ok |-> signature_ok,
                   status |-> get_voice_task_status(t).status,
                   result |-> get_voice_task_status(t).result,
                   reply |-> PollTwiml(get_voice_task_status(t))]
    /\ UNCHANGED <<tasks, db, voice_config, vt_reply, vt_trace, vt_handled, flowVars, finalVars, gatewayVars, smartVars, tenantVars, backendVars, prodVars, hybridVars, dbVars>>

(***************************************************************************)
(* app/utils/twilio_utils.py: validation of the provider's signature       *)
(***************************************************************************)
\* code-point order of the characters of the model's form parameters
CodeOrder == DigitChars \o UpperAlphabet \o LowerAlphabet

\* a < b for Python strings
RECURSIVE StrLess(_, _)
StrLess(a, b) ==
    IF Len(b) = 0 THEN FALSE
    ELSE IF Len(a) = 0 THEN TRUE
    ELSE IF Ch(a, 1) = Ch(b, 1) THEN StrLess(SubSeq(a, 2, Len(a)), SubSeq(b, 2, Len(b)))
    ELSE IndexIn(CodeOrder, Ch(a, 1)) < IndexIn(CodeOrder, Ch(b, 1))

\* sorted(params)
RECURSIVE InsertSorted(_, _)
InsertSorted(x, xs) ==
    IF xs = <<>> THEN <<x>>
    ELSE IF StrLess(xs[1], x) THEN <<xs[1]>> \o InsertSorted(x, Tail(xs))
    ELSE <<x>> \o xs
RECURSIVE Sorted(_)
Sorted(xs) == IF xs = <<>> THEN <<>> ELSE InsertSorted(xs[1], Sorted(Tail(xs)))

\* twilio_utils.py lines 54-59: parse_qs(body) and the list of key + value
\* strings; parse_qs leaves out the fields whose value is blank.  The body
\* is the sequence of its decoded fields <<key, value>>.
RECURSIVE FormParams(_)
FormParams(body) ==
    IF body = <<>> THEN <<>>
    ELSE (IF body[1][2] = "" THEN <<>> ELSE <<body[1][1] \o body[1][2]>>)
         \o FormParams(Tail(body))

\* "".join(xs)
RECURSIVE ConcatAll(_)
ConcatAll(xs) == IF xs = <<>> THEN "" ELSE xs[1] \o ConcatAll(Tail(xs))

\* twilio_utils.py lines 53-62: the string that is signed
DataString(url, body) == url \o ConcatAll(Sorted(FormParams(body)))

\* base64(HMAC-SHA1(key, message)), taken as an ideal MAC: the tag names its
\* key and its message, so that two tags are equal exactly when both agree
Hmac(key, message) == <<"hmac-sha1", key, message>>

validate_twilio_signature_mut(conf, request) ==
    IF conf.TWILIO_AUTH_TOKEN = "" THEN TRUE
    ELSE IF request.signature = None THEN FALSE
    ELSE request.signature[1] = Hmac(conf.TWILIO_AUTH_TOKEN,
                                     DataString(request.url, request.body))
\* twilio_utils.py lines 19-87; an unset token is the empty string
validate_twilio_signature(conf, request) ==
    IF conf.DEBUG /\ conf.TWILIO_AUTH_TOKEN = "" THEN TRUE
    ELSE IF conf.TWILIO_AUTH_TOKEN = "" THEN FALSE
    ELSE IF request.signature = None THEN FALSE
    ELSE request.signature[1] = Hmac(conf.TWILIO_AUTH_TOKEN,
                                     DataString(request.url, request.body))

\* config.py lines 21 and 57: the settings the validation reads
SettingsValues == [DEBUG : BOOLEAN, TWILIO_AUTH_TOKEN : {"", "tok"}]

RequestUrls == {"https://h/v1/voice/t1/gather", "https://h/v1/voice/t1/process-async"}
RequestBodies ==
    {<<>>,
     <<<<"CallSid", "CA1">>>>,
     <<<<"CallSid", "CA2">>>>,
     <<<<"From", "15551234567">>, <<"CallSid", "CA1">>>>,
     <<<<"CallSid", "CA1">>, <<"SpeechResult", "">>>>}

\* the header X-Twilio-Signature: absent, or a tag made with the tenant's
\* token or with another key for one of the model's requests
SignatureHeaders ==
    {None} \cup {Some(Hmac(k, DataString(u, b))) :
                    k \in {"tok", "bad"}, u \in RequestUrls, b \in RequestBodies}

Requests == {r : r \in [signature : SignatureHeaders, url : RequestUrls, body : RequestBodies]}

NoRequest == [signature |-> None, url |-> "", body |-> <<>>]

GatewayInit ==
    /\ sg_request = NoRequest
    /\ sg_valid = FALSE

\* a webhook handler awaits validate_twilio_signature(request)
ValidateSignature(request) ==
    /\ sg_request' = request
    /\ sg_valid' = validate_twilio_signature(settings, request)
    /\ UNCHANGED <<settings, flowVars, finalVars, turnVars, asyncVars, smartVars, tenantVars, backendVars, prodVars, hybridVars, dbVars>>

(***************************************************************************)
(* The retry schedule of the background jobs of voice_tasks.py             *)
(***************************************************************************)
JobNames == {"process_voice_async", "process_conversation_async", "generate_tts_async"}

\* voice_tasks.py lines 21-27, 108-114 and 187-193: the task decorators
TaskOptions ==
    [process_voice_async |->
        [max_retries |-> max_retries, default_retry_delay |-> default_retry_delay],
     process_conversation_async |-> [max_retries |-> 2, default_retry_delay |-> 5],
     generate_tts_async |-> [max_retries |-> 2, default_retry_delay |-> 3]]

\* the countdown passed to self.retry: voice_tasks.py line 99 for
\* process_voice_async, lines 177 and 253 for the other two jobs
RetryCountdown(name, retries) ==
    IF name = "process_voice_async"
    THEN TaskOptions[name].default_retry_delay * PowerOfTwo(retries)
    ELSE TaskOptions[name].default_retry_delay

\* a job nobody has submitted; countdowns lists the delays of its retries
NoJob == [sent |-> FALSE, status |-> "PENDING", retries |-> 0, failures |-> 0,
          countdowns |-> <<>>]

JobsInit ==
    /\ tasks = [name \in JobNames |-> NoJob]
    /\ expired = {}
    /\ va_reply = NoResponse
    /\ va_last = [task |-> 0, signature_ok |-> TRUE, status |-> "", result |-> None,
                  reply |-> NoResponse]

\* <job>.delay(...): the job is queued
DelayJob(name) ==
    /\ ~tasks[name].sent
    /\ tasks' = [tasks EXCEPT ![name].sent = TRUE]
    /\ UNCHANGED <<va_reply, va_last, db, voice_config, vt_reply, vt_trace, vt_handled,
                   flowVars, finalVars, gatewayVars, smartVars, tenantVars, backendVars, prodVars, hybridVars, dbVars>>

\* voice_tasks.py lines 60-63, 143-146 and 220-223: a worker runs the job
\* (first delivery or a retry whose countdown has passed)
StartJob(name) ==
    /\ tasks[name].sent
    /\ tasks[name].status \in {"PENDING", "RETRY"}
    /\ tasks' = [tasks EXCEPT ![name].status = "PROCESSING"]
    /\ UNCHANGED <<va_reply, va_last, db, voice_config, vt_reply, vt_trace, vt_handled,
                   flowVars, finalVars, gatewayVars, smartVars, tenantVars, backendVars, prodVars, hybridVars, dbVars>>

\* voice_tasks.py lines 88-105, 167-184 and 243-258: the except branch of a job
JobAttemptFailed(name, job) ==
    IF job.retries < TaskOptions[name].max_retries
    THEN [job EXCEPT !.status = "RETRY",
                     !.failures = job.failures + 1,
                     !.countdowns = Append(job.countdowns, RetryCountdown(name, job.retries)),
                     !.retries = job.retries + 1]
    ELSE [job EXCEPT !.status = "SUCCESS", !.failures = job.failures + 1]

\* the attempt ends: the internal coroutine returned its result or raised
FinishJob(name, raised) ==
    /\ tasks[name].status = "PROCESSING"
    /\ tasks' = [tasks EXCEPT ![name] = IF raised THEN JobAttemptFailed(name, tasks[name])
                                        ELSE [tasks[name] EXCEPT !.status = "SUCCESS"]]
    /\ UNCHANGED <<va_reply, va_last, db, voice_config, vt_reply, vt_trace, vt_handled,
                   flowVars, finalVars, gatewayVars, smartVars, tenantVars, backendVars, prodVars, hybridVars, dbVars>>

(***************************************************************************)
(* smart_receptionist_app.py: SmartReceptionist and its webhook            *)
(***************************************************************************)
\* line 148: words whose presence in a candidate name rejects it
SmartNameFillers == {"calling", "speaking", "appointment", "like"}

\* lines 139-150: the first pattern whose leftmost match passes the filter
SmartName(full_text) ==
    OrElse(NameCandidate(SearchIntro(full_text), SmartNameFillers),
           NameCandidate(SearchTwoWords(full_text), SmartNameFillers))

\* lines 160-168
SmartType(full_text) ==
    IF ContainsAny(full_text, {"cleaning", "clean"}) THEN Some("cleaning")
    ELSE IF ContainsAny(full_text, {"checkup", "check", "exam"}) THEN Some("checkup")
    ELSE IF ContainsAny(full_text, {"consultation", "consult", "new patient"})
         THEN Some("consultation")
    ELSE IF ContainsAny(full_text, {"emergency", "urgent", "pain", "hurt"})
         THEN Some("emergency")
    ELSE None

\* lines 170-174
SmartTime(full_text) ==
    IF ContainsAny(full_text, {"morning", "am", "early"}) THEN Some("morning")
    ELSE IF ContainsAny(full_text, {"afternoon", "pm", "later"}) THEN Some("afternoon")
    ELSE None

\* lines 132-176, from the contents of the user messages of the conversation
InfoOfTexts(user_texts) ==
    [name  |-> SmartName(Lower(Join(user_texts))),
     phone |-> PatientPhone(Lower(Join(user_texts))),
     type  |-> SmartType(Lower(Join(user_texts))),
     time  |-> SmartTime(Lower(Join(user_texts)))]

\* what the callers of the model say
S_CHECK == "I need a checkup"
S_CLEAN == "a cleaning please"
SmartUtterances == {U_NAME, U_PHONE, S_CHECK, S_CLEAN}
\* line 318: SpeechResult or "Hello"
SmartInputs == SmartUtterances \cup {"Hello"}

\* InfoOfTexts over the user messages a conversation of the model can hold
UserTexts == UNION {[1..n -> SmartInputs] : n \in 0..MaxSmartEvents}
InfoTable == [us \in UserTexts |-> InfoOfTexts(us)]

extract_appointment_info(conversation) == InfoTable[ContentsOf(conversation, {"user"})]

\* lines 178-180
should_complete_appointment(info) ==
    info.name # None /\ info.phone # None /\ info.type # None /\ info.time # None

\* lines 116-120
get_conversation_history(cc, call_id) == DictGet(cc, call_id, <<>>)

LastN(xs, n) == IF Len(xs) > n THEN SubSeq(xs, Len(xs) - n + 1, Len(xs)) ELSE xs

\* lines 122-130
add_to_conversation(cc, call_id, user_input, ai_response) ==
    SetKey(cc, call_id,
           LastN(get_conversation_history(cc, call_id)
                   \o <<[role |-> "user", content |-> user_input],
                        [role |-> "assistant", content |-> ai_response]>>, 20))

SmartInit ==
    /\ call_conversations = <<>>
    /\ sr_appointments = <<>>
    /\ sr_handled = 0
    /\ sr_reply = [text |-> <<>>, complete |-> FALSE]

\* lines 182-233: generate_response, with the conversation list that line
\* 186 has put in the store; openai tells whether a client is configured and
\* its call returns
SmartRespond(cc, call_id, user_input, info, openai) ==
    IF should_complete_appointment(info)
    THEN /\ sr_appointments' = Append(sr_appointments,
                [id |-> Len(sr_appointments) + 1, name |-> info.name[1],
                 phone |-> info.phone[1], type |-> info.type[1],
                 time |-> info.time[1], status |-> "scheduled"])
         /\ sr_reply' = [text |-> <<"Perfect! I've scheduled your", info.type[1],
                                    Len(sr_appointments) + 1>>,
                         complete |-> TRUE]
         /\ call_conversations' = add_to_conversation(cc, call_id, user_input,
                                       <<"Perfect! I've scheduled your", info.type[1],
                                         Len(sr_appointments) + 1>>)
    ELSE IF openai
    THEN /\ sr_reply' = [text |-> <<"ai_response">>, complete |-> FALSE]
         /\ call_conversations' = add_to_conversation(cc, call_id, user_input,
                                                      <<"ai_response">>)
         /\ UNCHANGED sr_appointments
    ELSE /\ sr_reply' = [text |-> <<"fallback_response">>, complete |-> FALSE]
         /\ call_conversations' = cc
         /\ UNCHANGED sr_appointments

\* lines 303-349: POST /api/v1/voice/{tenant_id}
SmartWebhook(CallSid, SpeechResult, openai) ==
    /\ sr_handled < MaxSmartEvents
    /\ sr_handled' = sr_handled + 1
    /\ LET user_input == IF SpeechResult = "" THEN "Hello" ELSE SpeechResult
           conversation == get_conversation_history(call_conversations, CallSid)
           info == extract_appointment_info(
                       conversation \o <<[role |-> "user", content |-> user_input]>>)
       IN SmartRespond(SetKey(call_conversations, CallSid, conversation),
                       CallSid, user_input, info, openai)
    /\ UNCHANGED <<flowVars, finalVars, turnVars, asyncVars, gatewayVars, tenantVars, backendVars, prodVars, hybridVars, dbVars>>

(***************************************************************************)
(* multitenant_saas_app.py: MultiTenantReceptionist and its webhook        *)
(***************************************************************************)
\* lines 382-396: the two tenants created at start-up
TenantIds2 == {"tenant_0001", "tenant_0002"}
\* the tenant_id path values of the requests: the two tenants and an id
\* that names no tenant
TenantPaths == TenantIds2 \cup {"tenant_0009"}

\* line 242: words whose presence in a candidate name rejects it
MtNameFillers == {"calling", "appointment", "schedule"}

\* what the callers of the model say
U_SPEAK == "this is John speaking"
U_CALL  == "calling"
MtUtterances == {U_NAME, U_PHONE, U_SPEAK, U_CALL}

\* lines 231-273: extract_info_from_speech differs from that of
\* fixed_flow_app.py in the filler list of the name step only
MtExtracted ==
    [u \in MtUtterances, st \in 0..5 |->
        IF st = 1 THEN ExtractName(Strip(Lower(u)), MtNameFillers)
        ELSE extract_info_from_speech(u, st)]

\* lines 215-225
mt_get_call_data(cs, call_id, tenant_id) ==
    IF call_id \in DOMAIN cs THEN cs[call_id]
    ELSE [tenant_id |-> tenant_id, step |-> 0, data |-> <<>>, attempts |-> 0]

\* a session with the step, data and attempts of core
WithCore(cd, core) ==
    [tenant_id |-> cd.tenant_id, step |-> core.step, data |-> core.data,
     attempts |-> core.attempts]

\* lines 284-314: the session after the speech input was processed
MtProcessSpeech(cd, speech) ==
    IF speech # "" /\ cd.step > 0
    THEN WithCore(cd, ApplyExtraction([step |-> cd.step, data |-> cd.data,
                                       attempts |-> cd.attempts],
                                      MtExtracted[speech, IF cd.step <= 5 THEN cd.step ELSE 5]))
    ELSE cd

\* lines 1735-1769: the sample appointments present at start-up
SampleAppointments ==
    [k \in {<<"apt", 1>>, <<"apt", 2>>, <<"apt", 3>>} |->
        [id |-> k, tenant_id |-> IF k[2] = 3 THEN "tenant_0002" ELSE "tenant_0001",
         status |-> IF k[2] = 3 THEN "completed" ELSE "scheduled"]]

\* lines 343-354: the id is APT_ followed by len(appointments) + 1
MtAppointment(apps, tenant_id, call_id, data) ==
    [confirmation_number |-> <<"APT", Cardinality(DOMAIN apps) + 1>>,
     tenant_id |-> tenant_id,
     name  |-> DictGet(data, "name", "Customer"),
     phone |-> DictGet(data, "phone", "Unknown"),
     type  |-> DictGet(data, "type", "checkup"),
     time  |-> DictGet(data, "time", "morning"),
     status |-> "scheduled",
     call_id |-> call_id]

TenantInit ==
    /\ mt_call_states = <<>>
    /\ mt_appointments = SampleAppointments
    /\ tenants = [t \in TenantIds2 |-> [total_calls |-> 0, total_appointments |-> 0]]
    /\ mt_stats = [total_calls |-> 0, total_appointments |-> 0]
    /\ mt_reply = [prompt |-> "", complete |-> FALSE]

\* lines 316-377: the reply for the session cd, for a tenant_id of tenants
MtRespond(call_id, tenant_id, cd) ==
    IF cd.step >= 5
    THEN /\ mt_appointments' =
              SetKey(mt_appointments, <<"APT", Cardinality(DOMAIN mt_appointments) + 1>>,
                     MtAppointment(mt_appointments, tenant_id, call_id, cd.data))
         /\ mt_stats' = [total_calls |-> mt_stats.total_calls + 1,
                         total_appointments |-> mt_stats.total_appointments + 1]
         /\ tenants' = [tenants EXCEPT
                          ![tenant_id] = [total_calls |-> @.total_calls + 1,
                                          total_appointments |-> @.total_appointments + 1]]
         /\ mt_call_states' = DelKey(mt_call_states, call_id)
         /\ mt_reply' = [prompt |-> "confirmation", complete |-> TRUE]
    ELSE /\ mt_call_states' =
              SetKey(mt_call_states, call_id,
                     IF cd.step = 0 THEN [cd EXCEPT !.step = 1] ELSE cd)
         /\ mt_stats' = [mt_stats EXCEPT !.total_calls = @ + 1]
         /\ tenants' = [tenants EXCEPT ![tenant_id].total_calls = @ + 1]
         /\ mt_reply' = [prompt |-> CASE cd.step = 0 -> "greeting"
                                      [] cd.step = 1 ->
                                           IF cd.attempts >= AttemptCap
                                           THEN "ask_phone_no_name" ELSE "reprompt_name"
                                      [] cd.step = 2 ->
                                           IF "name" \in DOMAIN cd.data
                                           THEN "thank_ask_phone" ELSE "ask_phone"
                                      [] cd.step = 3 -> "ask_type"
                                      [] cd.step = 4 -> "ask_time",
                         complete |-> FALSE]
         /\ UNCHANGED mt_appointments

\* lines 569-626: POST /api/v1/voice/{tenant_id}; at most max_events
\* requests of known tenants are handled
MtRequest(tenant_id, CallSid, SpeechResult, max_events) ==
    IF tenant_id \notin DOMAIN tenants
    THEN /\ mt_reply' = [prompt |-> "not_available", complete |-> TRUE]
         /\ UNCHANGED <<mt_call_states, mt_appointments, tenants, mt_stats>>
    ELSE /\ mt_stats.total_calls < max_events
         /\ MtRespond(CallSid, tenant_id,
                      MtProcessSpeech(mt_get_call_data(mt_call_states, CallSid, tenant_id),
                                      SpeechResult))

MtWebhook(tenant_id, CallSid, SpeechResult) ==
    /\ MtRequest(tenant_id, CallSid, SpeechResult, MaxTenantEvents)
    /\ UNCHANGED <<flowVars, finalVars, turnVars, asyncVars, gatewayVars, smartVars, backendVars, prodVars, hybridVars, dbVars>>

\* the voice webhook beside the admin API
MtWebhookBesideAdmin(tenant_id, CallSid, SpeechResult) ==
    /\ MtRequest(tenant_id, CallSid, SpeechResult, MaxAdminEvents)
    /\ UNCHANGED <<flowVars, finalVars, turnVars, asyncVars, gatewayVars, smartVars, backendVars, prodVars, hybridVars, dbVars>>

\* lines 936-959: DELETE /api/v1/tenant/{tenant_id}/appointments/{appointment_id}
\* by the tenant's user; an unknown id and an appointment of another tenant
\* are refused and change nothing
delete_appointment_v1(tenant_id, appointment_id) ==
    /\ appointment_id \in DOMAIN mt_appointments
    /\ mt_appointments[appointment_id].tenant_id = tenant_id
    /\ mt_appointments' = DelKey(mt_appointments, appointment_id)
    /\ UNCHANGED <<mt_call_states, tenants, mt_stats, mt_reply>>
    /\ UNCHANGED <<flowVars, finalVars, turnVars, asyncVars, gatewayVars, smartVars, backendVars, prodVars, hybridVars, dbVars>>

\* lines 814-847: DELETE /api/v1/admin/tenants/{tenant_id} by the admin
delete_tenant_v1(tenant_id) ==
    /\ tenant_id \in DOMAIN tenants
    /\ tenants' = DelKey(tenants, tenant_id)
    /\ mt_appointments' = [k \in {a \in DOMAIN mt_appointments :
                                    mt_appointments[a].tenant_id # tenant_id}
                              |-> mt_appointments[k]]
    /\ mt_call_states' = [c \in {d \in DOMAIN mt_call_states :
                                    mt_call_states[d].tenant_id # tenant_id}
                             |-> mt_call_states[c]]
    /\ UNCHANGED <<mt_stats, mt_reply>>
    /\ UNCHANGED <<flowVars, finalVars, turnVars, asyncVars, gatewayVars, smartVars, backendVars, prodVars, hybridVars, dbVars>>

\* the appointment ids of the model: the samples and the ids the webhook
\* can give
AppointmentIds ==
    {<<"apt", n>> : n \in 1..3} \cup {<<"APT", n>> : n \in 1..(3 + MaxAdminEvents)}

(***************************************************************************)
(* fixed_production_app.py: VoiceAI and its webhook                        *)
(***************************************************************************)
\* line 167: words whose presence in a candidate name rejects it
FpNameFillers ==
    {"calling", "speaking", "appointment", "dental", "schedule", "like", "want", "need"}

\* lines 157-171: the first pattern whose leftmost match passes the filter
FpName(full_text) ==
    OrElse(NameCandidate(SearchIntro(full_text), FpNameFillers),
           NameCandidate(SearchTwoWords(full_text), FpNameFillers))

\* lines 185-193
FpType(full_text) ==
    IF ContainsAny(full_text, {"cleaning", "clean"}) THEN Some("cleaning")
    ELSE IF ContainsAny(full_text, {"checkup", "check", "exam"}) THEN Some("checkup")
    ELSE IF ContainsAny(full_text, {"consultation", "consult"}) THEN Some("consultation")
    ELSE IF ContainsAny(full_text, {"emergency", "urgent", "pain"}) THEN Some("emergency")
    ELSE None

\* lines 195-199
FpTime(full_text) ==
    IF ContainsAny(full_text, {"morning", "am"}) THEN Some("morning")
    ELSE IF ContainsAny(full_text, {"afternoon", "pm"}) THEN Some("afternoon")
    ELSE None

\* lines 141-200: VoiceAI.extract_patient_info, from the contents of the
\* user messages of the history
FpInfoOfTexts(user_texts) ==
    [name             |-> FpName(Lower(Join(user_texts))),
     phone            |-> PatientPhone(Lower(Join(user_texts))),
     appointment_type |-> FpType(Lower(Join(user_texts))),
     preferred_time   |-> FpTime(Lower(Join(user_texts)))]

\* what the callers of the model say
U_APPT == "I'd like to schedule an appointment"
U_JOHN == "This is John Smith"
U_CHECKUP == "a checkup"
U_PM   == "3 pm"
FpUtterances == {U_JOHN, U_PHONE, U_CHECKUP, U_PM}

\* FpInfoOfTexts over the user messages a history of the model can hold
FpUserTexts == UNION {[1..n -> FpUtterances] : n \in 0..MaxProdEvents}
FpInfoTable == [us \in FpUserTexts |-> FpInfoOfTexts(us)]

FpExtractPatientInfo(conversation_history) ==
    FpInfoTable[ContentsOf(conversation_history, {"user"})]

\* the replies of generate_response: the text of the f-string with its
\* fields left out, and the values of the fields (no value of the model
\* contains a phrase the code searches the reply for)
FpResponse(text, fields) == [role |-> "assistant", content |-> text, fields |-> fields]
FpUser(text) == [role |-> "user", content |-> text, fields |-> <<>>]

FpLowerResponses ==
    [t \in {"I'd be happy to help you schedule an appointment! May I get your full name please?",
            "Thank you, {}! What's the best phone number to reach you?",
            "I didn't catch your name clearly. Could you please tell me your full name?",
            "Perfect! What type of appointment do you need? We offer cleaning, checkup, consultation, or emergency appointments.",
            "Could you please provide your phone number?",
            "Great! For your {}, would you prefer morning or afternoon?",
            "What type of appointment would you like? Cleaning, checkup, consultation, or emergency?",
            "Perfect! I've scheduled your {} appointment for {}. Your confirmation number is {}. We'll call you at {} to confirm the exact time. Have a great day!",
            "Would you prefer a morning or afternoon appointment?",
            "Thank you for calling Demo Dental Practice. Have a wonderful day!"}
       \cup FpUtterances \cup {U_APPT} |-> Lower(t)]

\* lines 121-139: VoiceAI.get_conversation_step
get_conversation_step(history) ==
    IF ~\E i \in 1..Len(history) : Contains(FpLowerResponses[history[i].content], "appointment")
    THEN "greeting"
    ELSE IF FpExtractPatientInfo(history).name = None THEN "name"
    ELSE IF FpExtractPatientInfo(history).phone = None THEN "phone"
    ELSE IF FpExtractPatientInfo(history).appointment_type = None THEN "type"
    ELSE IF FpExtractPatientInfo(history).preferred_time = None THEN "time"
    ELSE "confirm"

\* lines 216-257: the reply of a step and the appointment it creates, as
\* <<reply, appointment or None>>
FpStepResponse(step, patient_info, apps) ==
    IF step = "greeting"
    THEN <<FpResponse("I'd be happy to help you schedule an appointment! May I get your full name please?", <<>>), None>>
    ELSE IF step = "name"
    THEN IF patient_info.name # None
         THEN <<FpResponse("Thank you, {}! What's the best phone number to reach you?",
                           <<patient_info.name[1]>>), None>>
         ELSE <<FpResponse("I didn't catch your name clearly. Could you please tell me your full name?", <<>>), None>>
    ELSE IF step = "phone"
    THEN IF patient_info.phone # None
         THEN <<FpResponse("Perfect! What type of appointment do you need? We offer cleaning, checkup, consultation, or emergency appointments.", <<>>), None>>
         ELSE <<FpResponse("Could you please provide your phone number?", <<>>), None>>
    ELSE IF step = "type"
    THEN IF patient_info.appointment_type # None
         THEN <<FpResponse("Great! For your {}, would you prefer morning or afternoon?",
                           <<patient_info.appointment_type[1]>>), None>>
         ELSE <<FpResponse("What type of appointment would you like? Cleaning, checkup, consultation, or emergency?", <<>>), None>>
    ELSE IF step = "time"
    THEN IF patient_info.preferred_time # None
         THEN <<FpResponse("Perfect! I've scheduled your {} appointment for {}. Your confirmation number is {}. We'll call you at {} to confirm the exact time. Have a great day!",
                           <<patient_info.appointment_type[1], patient_info.name[1],
                             <<"APT", Cardinality(DOMAIN apps) + 1>>, patient_info.phone[1]>>),
                Some([name  |-> patient_info.name[1],
                      phone |-> patient_info.phone[1],
                      type  |-> patient_info.appointment_type[1],
                      time  |-> patient_info.preferred_time[1]])>>
         ELSE <<FpResponse("Would you prefer a morning or afternoon appointment?", <<>>), None>>
    ELSE <<FpResponse("Thank you for calling Demo Dental Practice. Have a wonderful day!", <<>>), None>>

ProdInit ==
    /\ fp_call_states = <<>>
    /\ fp_appointments = <<>>
    /\ fp_stats = [calls_handled |-> 0, appointments_created |-> 0]
    /\ fp_reply = [call |-> "", speech |-> "", say |-> "", fields |-> <<>>, hangup |-> FALSE]

\* lines 202-262: VoiceAI.generate_response, with the history to which lines
\* 206-209 have added the user input
FpGenerate(call_id, user_input, history) ==
    LET r == FpStepResponse(get_conversation_step(history), FpExtractPatientInfo(history),
                            fp_appointments)
    IN /\ fp_call_states' = SetKey(fp_call_states, call_id, Append(history, r[1]))
       /\ IF r[2] # None
          THEN /\ fp_appointments' = SetKey(fp_appointments,
                                            <<"APT", Cardinality(DOMAIN fp_appointments) + 1>>,
                                            r[2][1])
               /\ fp_stats' = [fp_stats EXCEPT !.calls_handled = @ + 1,
                                               !.appointments_created = @ + 1]
          ELSE /\ fp_appointments' = fp_appointments
               /\ fp_stats' = [fp_stats EXCEPT !.calls_handled = @ + 1]
       \* lines 328-332: the reply that holds "confirmation number" or "have a
       \* great day" ends the call
       /\ fp_reply' = [call |-> call_id, speech |-> user_input,
                       say |-> r[1].content, fields |-> r[1].fields,
                       hangup |-> \/ Contains(FpLowerResponses[r[1].content], "confirmation number")
                                  \/ Contains(FpLowerResponses[r[1].content], "have a great day")]

\* lines 285-361: POST /api/v1/voice/{tenant_id} of a call in progress; a
\* request without speech is answered with the welcome and changes no
\* history; speech of fewer than two characters is replaced (line 322)
FpWebhook(CallSid, SpeechResult) ==
    /\ fp_stats.calls_handled < MaxProdEvents
    /\ IF SpeechResult = ""
       THEN /\ fp_stats' = [fp_stats EXCEPT !.calls_handled = @ + 1]
            /\ fp_reply' = [call |-> CallSid, speech |-> "",
                            say |-> "Thank you for calling Demo Dental Practice!",
                            fields |-> <<>>, hangup |-> FALSE]
            /\ UNCHANGED <<fp_call_states, fp_appointments>>
       ELSE LET user_input == IF Len(Strip(SpeechResult)) < 2 THEN U_APPT
                              ELSE Strip(SpeechResult)
            IN FpGenerate(CallSid, user_input,
                          Append(DictGet(fp_call_states, CallSid, <<>>), FpUser(user_input)))
    /\ UNCHANGED <<flowVars, finalVars, turnVars, asyncVars, gatewayVars, smartVars, tenantVars, backendVars, hybridVars, dbVars>>

(***************************************************************************)
(* hybrid_voice_system.py: HybridVoiceSystem and its /process endpoint     *)
(***************************************************************************)
\* line 87 tried at position i:  ([A-Za-z]+\s+[A-Za-z]+)
HyTwoWordsAt(s, i) ==
    IF LetterRunEnd(s, i) >= i
       /\ SpaceRunEnd(s, LetterRunEnd(s, i) + 1) >= LetterRunEnd(s, i) + 1
       /\ LetterRunEnd(s, SpaceRunEnd(s, LetterRunEnd(s, i) + 1) + 1)
             >= SpaceRunEnd(s, LetterRunEnd(s, i) + 1) + 1
    THEN Some(SubSeq(s, i, LetterRunEnd(s, SpaceRunEnd(s, LetterRunEnd(s, i) + 1) + 1)))
    ELSE None

\* line 94: words whose presence in the candidate rejects it
HyNameFillers == {"calling", "speaking", "appointment", "dental"}

\* lines 85-96 on the lower-cased text (the patterns ignore case and
\* .title() does not depend on the case of its input): the first pattern
\* that matches decides, also when its candidate is rejected (line 96)
HyNameOf(m1, m2) ==
    IF m1 # None THEN NameCandidate(m1, HyNameFillers)
    ELSE IF m2 # None THEN NameCandidate(m2, HyNameFillers)
    ELSE None

HyName(ls) == HyNameOf(Search(PatientIntroAt, ls), Search(HyTwoWordsAt, ls))

\* lines 105-111; "checkup" is the value the dict starts with (line 73)
HyType(ls) ==
    IF Contains(ls, "cleaning") THEN "cleaning"
    ELSE IF Contains(ls, "emergency") \/ Contains(ls, "urgent") THEN "emergency"
    ELSE IF Contains(ls, "consultation") THEN "consultation"
    ELSE "checkup"

\* line 109; "routine" is the value the dict starts with (line 75)
HyUrgency(ls) ==
    IF ~Contains(ls, "cleaning") /\ (Contains(ls, "emergency") \/ Contains(ls, "urgent"))
    THEN "urgent" ELSE "routine"

\* lines 114-117
HyTime(ls) ==
    IF Contains(ls, "morning") THEN Some("morning")
    ELSE IF Contains(ls, "afternoon") THEN Some("afternoon")
    ELSE None

\* lines 68-119: HybridVoiceSystem.extract_patient_info, from the contents
\* of the user messages
HyInfoOfTexts(user_texts) ==
    [name             |-> HyName(Lower(Join(user_texts))),
     phone            |-> SearchPhone(Join(user_texts)),
     appointment_type |-> HyType(Lower(Join(user_texts))),
     preferred_time   |-> HyTime(Lower(Join(user_texts))),
     urgency          |-> HyUrgency(Lower(Join(user_texts)))]

\* what the callers of the model say
U_CHECK == "checkup"
HyUtterances == {U_JOHN, U_PHONE, U_CHECK, U_CLEAN, U_MORN}

\* HyInfoOfTexts over the user messages a history of the model can hold
HyUserTexts == UNION {[1..n -> HyUtterances \cup {U_APPT}] : n \in 0..MaxHybridEvents}
HyInfoTable == [us \in HyUserTexts |-> HyInfoOfTexts(us)]

HyExtractPatientInfo(conversation_history) ==
    HyInfoTable[ContentsOf(conversation_history, {"user"})]

\* the replies of generate_response: the text of the f-string with its
\* fields left out, and the values of the fields (no value of the model
\* contains a phrase the code searches the reply for)
HyAskName  == "I'd be happy to help you schedule an appointment! May I get your full name?"
HyHello    == "Hello! I'm here to help with your dental needs. Are you looking to schedule an appointment?"
HyTellName == "Could you please tell me your full name?"
HyAskPhone == "Thank you, {}! What's the best phone number to reach you?"
HyAskType  == "What type of appointment would you like? Cleaning, checkup, consultation, or is this an emergency?"
HyAskTimeUrgent == "For emergencies, I can fit you in today. Do you prefer morning or afternoon?"
HyAskTime  == "I have availability at {}. Which works best?"
HyAskTimeLater == "Let me check tomorrow's schedule. What time do you usually prefer?"
HyBooked   == "Perfect! I've scheduled your {} for {}. We'll call {} to confirm. Your confirmation number is {}. Is there anything else I can help you with?"

HyLower ==
    [t \in {HyAskName, HyHello, HyTellName, HyAskPhone, HyAskType, HyAskTimeUrgent,
            HyAskTime, HyAskTimeLater, HyBooked, U_APPT} \cup HyUtterances |-> Lower(t)]

\* lines 134-176: the reply, as <<text, fields>>
HyResponse(history, user_input, patient_info, apps) ==
    IF \/ Len(history) = 0
       \/ ~\E i \in 1..Len(history) : Contains(HyLower[history[i].content], "appointment")
    THEN IF Contains(HyLower[user_input], "appointment") \/ Contains(HyLower[user_input], "schedule")
         THEN <<HyAskName, <<>>>>
         ELSE <<HyHello, <<>>>>
    ELSE IF patient_info.name = None THEN <<HyTellName, <<>>>>
    ELSE IF patient_info.phone = None THEN <<HyAskPhone, <<patient_info.name[1]>>>>
    ELSE IF patient_info.appointment_type = "checkup" THEN <<HyAskType, <<>>>>
    ELSE IF patient_info.preferred_time = None
    THEN IF patient_info.urgency = "urgent" THEN <<HyAskTimeUrgent, <<>>>>
         ELSE IF Len(AvailableSlots) > 0 THEN <<HyAskTime, SubSeq(AvailableSlots, 1, 3)>>
         ELSE <<HyAskTimeLater, <<>>>>
    ELSE <<HyBooked, <<patient_info.appointment_type, patient_info.name[1],
                       patient_info.phone[1], <<"APT", Cardinality(DOMAIN apps) + 1>>>>>>

\* lines 161-167
HyAppointmentData(patient_info) ==
    [name    |-> patient_info.name[1],
     phone   |-> patient_info.phone[1],
     reason  |-> patient_info.appointment_type,
     time    |-> patient_info.preferred_time[1],
     urgency |-> patient_info.urgency]

HybridInit ==
    /\ hy_call_states = <<>>
    /\ hy_appointments = <<>>
    /\ hy_events = <<>>
    /\ hy_handled = 0
    /\ hy_reply = [call |-> "", speech |-> "", say |-> "", fields |-> <<>>, hangup |-> FALSE]

\* lines 121-186: HybridVoiceSystem.generate_response, and lines 372-388:
\* the reply that holds one of the three phrases ends the call
HyGenerate(call_id, user_input, history, r) ==
    /\ IF r[1] = HyBooked
       THEN /\ hy_events' = Append(hy_events,
                                   CalendarEvent(HyAppointmentData(HyExtractPatientInfo(
                                       Append(history, [role |-> "user", content |-> user_input]))))) 
            /\ hy_appointments' =
                   SetKey(hy_appointments, <<"APT", Cardinality(DOMAIN hy_appointments) + 1>>,
                          [call |-> call_id,
                           data |-> HyAppointmentData(HyExtractPatientInfo(
                                       Append(history, [role |-> "user", content |-> user_input]))),
                           calendar_event_id |-> Len(hy_events) + 1,
                           status |-> "confirmed"])
       ELSE UNCHANGED <<hy_events, hy_appointments>>
    /\ hy_call_states' = SetKey(hy_call_states, call_id,
                                history \o <<[role |-> "user", content |-> user_input],
                                             [role |-> "assistant", content |-> r[1]]>>)
    /\ hy_reply' = [call |-> call_id, speech |-> user_input, say |-> r[1], fields |-> r[2],
                    hangup |-> \E k \in {"confirmation number", "anything else", "have a great day"} :
                                  Contains(HyLower[r[1]], k)]

\* lines 354-390: POST /api/v1/voice/{tenant_id}/process, no OpenAI client
\* configured (line 191), so that generate_ai_response is generate_response
HyProcessConversation(CallSid, TranscriptionText) ==
    /\ hy_handled < MaxHybridEvents
    /\ hy_handled' = hy_handled + 1
    /\ LET user_input == IF TranscriptionText = "" THEN U_APPT ELSE TranscriptionText
           history == DictGet(hy_call_states, CallSid, <<>>)
       IN HyGenerate(CallSid, user_input, history,
                     HyResponse(history, user_input,
                                HyExtractPatientInfo(
                                    Append(history, [role |-> "user", content |-> user_input])),
                                hy_appointments))
    /\ UNCHANGED <<flowVars, finalVars, turnVars, asyncVars, gatewayVars, smartVars, tenantVars, backendVars, prodVars, dbVars>>

\* the caller of a history has given a name and a phone number and names
\* no type other than checkup
HyCheckupCaller(history) ==
    /\ HyExtractPatientInfo(history).name # None
    /\ HyExtractPatientInfo(history).phone # None
    /\ HyExtractPatientInfo(history).appointment_type = "checkup"

(***************************************************************************)
(* database_app.py: the webhook whose bookings go to the database          *)
(***************************************************************************)
\* the requests the server handles at the same time
Handlers == {1, 2}

\* what extract_appointment_info (lines 275-319) yields for the requests of
\* the model: conversations that hold all four items, so that
\* should_complete_appointment (lines 321-323) is true
DbInfos ==
    {[name |-> "Jane Doe", phone |-> U_PHONE, type |-> t, time |-> "morning"] :
        t \in {"cleaning", "checkup"}}

IdleHandler == [pc |-> "idle", call |-> "", info |-> None, confirmation_number |-> None]

DbInit ==
    /\ da_appointments = <<>>
    /\ da_call_logs = {}
    /\ da_stats = [calls_handled |-> 0, appointments_created |-> 0]
    /\ da_handlers = [h \in Handlers |-> IdleHandler]
    /\ da_replies = [h \in Handlers |-> [call |-> "", text |-> "", confirmation_number |-> None]]
    /\ da_conversations = <<>>

\* a coroutine runs from one await to the next without interruption; each
\* action below is one such stretch, begun when the awaited database call
\* has answered.
\*
\* lines 454-469: the request arrives; the handler counts it and waits for
\* the commit of log_call_in_db (line 194)
DbWebhookArrives(h, CallSid, info) ==
    /\ da_handlers[h].pc = "idle"
    /\ da_stats.calls_handled < MaxDbEvents
    /\ da_stats' = [da_stats EXCEPT !.calls_handled = @ + 1]
    /\ da_handlers' = [da_handlers EXCEPT ![h] =
           [pc |-> "log_call", call |-> CallSid, info |-> Some(info),
            confirmation_number |-> None]]
    /\ UNCHANGED <<da_appointments, da_call_logs, da_replies, da_conversations>>
    /\ UNCHANGED <<flowVars, finalVars, turnVars, asyncVars, gatewayVars, smartVars, tenantVars, backendVars, prodVars, hybridVars>>

\* lines 194-198 and 153-171: the commit of the call log has answered
\* (call_sid is unique, line 84: a second row of the same call is refused
\* and the except branch swallows the error); generate_response reaches
\* create_appointment_in_db, which takes the confirmation number from the
\* counter, adds the row to its session and waits for the commit
DbCreateAppointment(h) ==
    /\ da_handlers[h].pc = "log_call"
    /\ da_call_logs' = da_call_logs \cup {da_handlers[h].call}
    /\ da_handlers' = [da_handlers EXCEPT
           ![h].pc = "commit",
           ![h].confirmation_number = Some(<<"APT", da_stats.appointments_created + 1>>)]
    /\ UNCHANGED <<da_appointments, da_stats, da_replies, da_conversations>>
    /\ UNCHANGED <<flowVars, finalVars, turnVars, asyncVars, gatewayVars, smartVars, tenantVars, backendVars, prodVars, hybridVars>>

\* lines 66-78: confirmation_number is unique
CommitRefused(rows, confirmation_number) ==
    \E i \in 1..Len(rows) : rows[i].confirmation_number = confirmation_number

\* lines 171-174 and 336-340: the commit has answered and stored the row;
\* the counter is increased, and generate_response waits for the commit of
\* the second log_call_in_db
DbCommitted(h) ==
    /\ da_handlers[h].pc = "commit"
    /\ ~CommitRefused(da_appointments, da_handlers[h].confirmation_number[1])
    /\ da_appointments' = Append(da_appointments,
           [id |-> Len(da_appointments) + 1,
            confirmation_number |-> da_handlers[h].confirmation_number[1],
            customer_name |-> da_handlers[h].info[1].name,
            customer_phone |-> da_handlers[h].info[1].phone,
            appointment_type |-> da_handlers[h].info[1].type,
            time_preference |-> da_handlers[h].info[1].time,
            status |-> "scheduled"])
    /\ da_stats' = [da_stats EXCEPT !.appointments_created = @ + 1]
    /\ da_handlers' = [da_handlers EXCEPT ![h].pc = "log_booking"]
    /\ UNCHANGED <<da_call_logs, da_replies, da_conversations>>
    /\ UNCHANGED <<flowVars, finalVars, turnVars, asyncVars, gatewayVars, smartVars, tenantVars, backendVars, prodVars, hybridVars>>

\* lines 171 and 177-179: the commit has raised (the database refuses a
\* second row with the same confirmation_number); the except branch waits
\* for the rollback
DbCommitRaised(h) ==
    /\ da_handlers[h].pc = "commit"
    /\ CommitRefused(da_appointments, da_handlers[h].confirmation_number[1])
    /\ da_handlers' = [da_handlers EXCEPT ![h].pc = "rollback"]
    /\ UNCHANGED <<da_appointments, da_call_logs, da_stats, da_replies, da_conversations>>
    /\ UNCHANGED <<flowVars, finalVars, turnVars, asyncVars, gatewayVars, smartVars, tenantVars, backendVars, prodVars, hybridVars>>

\* lines 265-273, as the replies the conversation of a call holds
DbAddToConversation(cc, call_id, response) ==
    SetKey(cc, call_id, Append(DictGet(cc, call_id, <<>>), response))

\* lines 340-345 and 476-482: the second call log has answered; the caller
\* hears the confirmation and the call is ended
DbConfirmed(h) ==
    /\ da_handlers[h].pc = "log_booking"
    /\ da_call_logs' = da_call_logs \cup {da_handlers[h].call}
    /\ da_replies' = [da_replies EXCEPT ![h] =
           [call |-> da_handlers[h].call, text |-> "Perfect! I've scheduled your",
            confirmation_number |-> da_handlers[h].confirmation_number]]
    /\ da_conversations' = DbAddToConversation(da_conversations, da_handlers[h].call,
                                               "Perfect! I've scheduled your")
    /\ da_handlers' = [da_handlers EXCEPT ![h] = IdleHandler]
    /\ UNCHANGED <<da_appointments, da_stats>>
    /\ UNCHANGED <<flowVars, finalVars, turnVars, asyncVars, gatewayVars, smartVars, tenantVars, backendVars, prodVars, hybridVars>>

\* lines 179-180, 346-349 and 476-482: the rollback has answered;
\* create_appointment_in_db returns None, the caller hears that the
\* scheduling system has trouble and the call is ended
DbTrouble(h) ==
    /\ da_handlers[h].pc = "rollback"
    /\ da_replies' = [da_replies EXCEPT ![h] =
           [call |-> da_handlers[h].call,
            text |-> "I'm having trouble with our scheduling system right now.",
            confirmation_number |-> None]]
    /\ da_conversations' = DbAddToConversation(da_conversations, da_handlers[h].call,
                                               "I'm having trouble with our scheduling system right now.")
    /\ da_handlers' = [da_handlers EXCEPT ![h] = IdleHandler]
    /\ UNCHANGED <<da_appointments, da_call_logs, da_stats>>
    /\ UNCHANGED <<flowVars, finalVars, turnVars, asyncVars, gatewayVars, smartVars, tenantVars, backendVars, prodVars, hybridVars>>

(***************************************************************************)
(* Specifications                                                          *)
(***************************************************************************)
\* voice_config.py lines 63-64: the column defaults
DefaultVoiceConfig == [confidence_threshold |-> "0.7", fallback_to_human |-> TRUE]
\* config.py lines 21 and 57: the defaults of the settings
DefaultSettings == [DEBUG |-> TRUE, TWILIO_AUTH_TOKEN |-> ""]

InitFlow ==
    /\ FlowInit
    /\ FinalInit /\ client = FALSE
    /\ TurnInit /\ voice_config = DefaultVoiceConfig
    /\ AsyncInit
    /\ GatewayInit /\ settings = DefaultSettings
    /\ SmartInit
    /\ TenantInit
    /\ ProdInit
    /\ HybridInit
    /\ DbInit

FlowNext ==
    \/ \E c \in CallSids, u \in SpeechResults : Webhook(c, u)
    \/ Redeliver

SpecFlow == InitFlow /\ [][FlowNext]_vars

\* the step-counter machine in time: requests arrive or do not, and time
\* keeps passing
FlowLiveNext == FlowNext \/ Tick

SpecFlowLive == InitFlow /\ [][FlowLiveNext]_vars /\ WF_vars(Tick)

InitFinal ==
    /\ FlowInit
    /\ FinalInit /\ client \in BOOLEAN
    /\ TurnInit /\ voice_config = DefaultVoiceConfig
    /\ AsyncInit
    /\ GatewayInit /\ settings = DefaultSettings
    /\ SmartInit
    /\ TenantInit
    /\ ProdInit
    /\ HybridInit
    /\ DbInit

FinalNext ==
    \/ \E rq \in CallRequests, text \in Transcriptions, openai \in OpenAiOutcomes :
          process_conversation(rq[1], rq[2], text, openai)
    \/ \E sid \in CallSidInputs, status \in {"ringing", "completed"} :
          voice_webhook(sid, status)

SpecFinal == InitFinal /\ [][FinalNext]_vars

InitTurn ==
    /\ FlowInit
    /\ FinalInit /\ client = FALSE
    /\ TurnInit /\ voice_config \in VoiceConfigs
    /\ AsyncInit
    /\ GatewayInit /\ settings = DefaultSettings
    /\ SmartInit
    /\ TenantInit
    /\ ProdInit
    /\ HybridInit
    /\ DbInit

TurnNext ==
    \/ \E env \in TurnEnvs : GatherSpeech(env)
    \/ \E env \in TurnEnvs : GatherRecording(env)
    \/ GatherRecordingLost
    \/ GatherNoInput
    \/ \E signature_ok \in BOOLEAN, tenant_id \in TenantIds :
          GatherRejected(signature_ok, tenant_id)

SpecTurn == InitTurn /\ [][TurnNext]_vars

InitAsync ==
    /\ FlowInit
    /\ FinalInit /\ client = FALSE
    /\ TurnInit /\ voice_config \in AsyncConfigs
    /\ AsyncInit
    /\ GatewayInit /\ settings = DefaultSettings
    /\ SmartInit
    /\ TenantInit
    /\ ProdInit
    /\ HybridInit
    /\ DbInit

AsyncNext ==
    \/ \E t \in TaskIds : ProcessInputAsync(t)
    \/ \E has_input \in BOOLEAN : ProcessInputRefused(has_input)
    \/ \E t \in TaskIds : StartTask(t)
    \/ \E t \in TaskIds, env \in JobEnvs, tenant_read \in BOOLEAN :
          FinishTask(t, env, tenant_read)
    \/ \E t \in TaskIds : WorkerLost(t)
    \/ \E t \in TaskIds, signature_ok \in BOOLEAN : check_processing_result(t, signature_ok)

SpecAsync == InitAsync /\ [][AsyncNext]_vars

\* the background job and its polls on the time scale of the result backend
AsyncExpiryNext == AsyncNext \/ \E t \in TaskIds : ExpireResult(t)

SpecAsyncExpiry == InitAsync /\ [][AsyncExpiryNext]_vars

\* the workers of the "voice" queue keep running: a queued task, and a retry
\* whose countdown has passed, is taken by a worker, and an attempt that was
\* started ends (asyncio.run returns or raises, or the worker is lost).
\* Nothing is assumed about the requests of the caller.
WorkersRun ==
    \A t \in TaskIds :
        /\ WF_vars(StartTask(t))
        /\ WF_vars(\/ \E env \in JobEnvs, tenant_read \in BOOLEAN : FinishTask(t, env, tenant_read)
                   \/ WorkerLost(t))

SpecAsyncLive == SpecAsync /\ WorkersRun

InitJobs ==
    /\ FlowInit
    /\ FinalInit /\ client = FALSE
    /\ TurnInit /\ voice_config = DefaultVoiceConfig
    /\ JobsInit
    /\ GatewayInit /\ settings = DefaultSettings
    /\ SmartInit
    /\ TenantInit
    /\ ProdInit
    /\ HybridInit
    /\ DbInit

JobsNext ==
    \/ \E name \in JobNames : DelayJob(name)
    \/ \E name \in JobNames : StartJob(name)
    \/ \E name \in JobNames, raised \in BOOLEAN : FinishJob(name, raised)

SpecJobs == InitJobs /\ [][JobsNext]_vars

InitGateway ==
    /\ FlowInit
    /\ FinalInit /\ client = FALSE
    /\ TurnInit /\ voice_config = DefaultVoiceConfig
    /\ AsyncInit
    /\ GatewayInit /\ settings \in SettingsValues
    /\ SmartInit
    /\ TenantInit
    /\ ProdInit
    /\ HybridInit
    /\ DbInit

GatewayNext == \E request \in Requests : ValidateSignature(request)

SpecGateway == InitGateway /\ [][GatewayNext]_vars

InitTenant == InitGateway /\ settings = DefaultSettings

TenantNext ==
    \E t \in TenantPaths, c \in CallSids, u \in MtUtterances \cup {NoSpeech} :
        MtWebhook(t, c, u)

SpecTenant == InitTenant /\ [][TenantNext]_vars

\* the voice webhook of callers who answer every question with a phone
\* number or stay silent, interleaved with the deletions of the admin API
TenantAdminNext ==
    \/ \E t \in TenantIds2, c \in CallSids, u \in {U_PHONE, NoSpeech} :
          MtWebhookBesideAdmin(t, c, u)
    \/ \E t \in TenantIds2, k \in AppointmentIds : delete_appointment_v1(t, k)
    \/ \E t \in TenantIds2 : delete_tenant_v1(t)

SpecTenantAdmin == InitTenant /\ [][TenantAdminNext]_vars

InitSmart == InitGateway /\ settings = DefaultSettings

DbNext ==
    \/ \E h \in Handlers, c \in CallSids, info \in DbInfos : DbWebhookArrives(h, c, info)
    \/ \E h \in Handlers : DbCreateAppointment(h)
    \/ \E h \in Handlers : DbCommitted(h)
    \/ \E h \in Handlers : DbCommitRaised(h)
    \/ \E h \in Handlers : DbConfirmed(h)
    \/ \E h \in Handlers : DbTrouble(h)

SpecDb == InitTenant /\ [][DbNext]_vars

HybridNext ==
    \E c \in CallSids, u \in HyUtterances \cup {NoSpeech} : HyProcessConversation(c, u)

SpecHybrid == InitTenant /\ [][HybridNext]_vars

\* a caller who has given a name and a phone number and names no type other
\* than checkup is asked for the type, whatever else the caller says
HyCheckupCallerIsStuck ==
    \A c \in DOMAIN hy_call_states :
        (HyCheckupCaller(hy_call_states[c]) /\ Len(hy_call_states[c]) > 2)
        => /\ hy_call_states[c][Len(hy_call_states[c])].content = HyAskType
           /\ \A k \in DOMAIN hy_appointments : hy_appointments[k].call # c

\* the other types are booked
HyBookingReached == hy_appointments # <<>> /\ hy_reply.hangup

ProdNext ==
    \E c \in CallSids, u \in FpUtterances \cup {NoSpeech} : FpWebhook(c, u)

SpecProd == InitTenant /\ [][ProdNext]_vars

\* no request of fixed_production_app.py creates an appointment
FpNothingBooked == fp_appointments = <<>> /\ ~fp_reply.hangup

SmartNext ==
    \E c \in CallSids, u \in SmartUtterances \cup {NoSpeech}, openai \in BOOLEAN :
        SmartWebhook(c, u, openai)

SpecSmart == InitSmart /\ [][SmartNext]_vars

(***************************************************************************)
(* Claims about the step-counter machine (checked under SpecFlow)          *)
(***************************************************************************)

\* C1: duplicate delivery is idempotent on session state - after the same
\* webhook event (same call_id, same utterance) was handled twice in a row,
\* the call's session (step, slots, attempt count) is what it was after the
\* first handling.
C1_DuplicateDeliveryIdempotent ==
    dup => SessionOf(call_states, last.call) = last.sess

\* C2: booking finalization is idempotent per call_id - when the event that
\* finalized a booking is delivered a second time, the second reply carries
\* the confirmation code already issued and the stored appointments are
\* unchanged.
C2_FinalizeIdempotent ==
    (dup /\ last.reply.complete) =>
        /\ reply.confirmation = last.reply.confirmation
        /\ appointments = last.apps

\* the outcome the end-to-end scenario requires for call c: exactly one
\* appointment made by the call, holding the four values given and a
\* confirmation code, and the session finished (removed from the store)
ScenarioBooked(c) ==
    /\ Cardinality(made[c]) = 1
    /\ \A id \in made[c] :
          /\ id >= 1
          /\ id \in DOMAIN appointments
          /\ appointments[id] = [confirmation_number |-> id, name |-> "Jane Doe",
                                 phone |-> "555-123-4567", type |-> "cleaning",
                                 time |-> "morning"]
    /\ c \notin DOMAIN call_states

\* C4 (as stated): from a new call_id, the five turns name, phone,
\* "cleaning", "morning", confirm end with exactly one appointment holding
\* these values and the session at TERMINAL.
C4_FiveUtterancesBook ==
    \A c \in CallSids : scen[c].utterances = 5 => ScenarioBooked(c)

\* C4 (amended): from a new call_id, the call-start event (no speech, answered
\* by the greeting) followed by the four turns name, phone, "cleaning",
\* "morning" ends with exactly one appointment holding these values and the
\* session finished; the booking is finalized on the time turn.
C4_CallStartThenFourTurnsBook ==
    \A c \in CallSids : scen[c].callStart = 5 => ScenarioBooked(c)

C4_Witness == \E c \in CallSids : scen[c].callStart = 5 /\ made[c] # {}

\* C5: two consecutive utterances from which nothing is extracted at a
\* collecting step give the step's slot its default value and advance the
\* step by one; the machine never sees a third failed utterance at the step.
C5_TwoFailuresAdvance ==
    \A c \in CallSids :
        failRun[c].n >= 2 =>
            LET st == failRun[c].step
            IN /\ failRun[c].n = 2
               /\ st < 4 => /\ c \in DOMAIN call_states
                            /\ call_states[c].step = st + 1
                            /\ call_states[c].attempts = 0
                            /\ SlotOfStep[st] \in DOMAIN call_states[c].data
                            /\ call_states[c].data[SlotOfStep[st]] = DefaultOfStep[st]
               /\ st = 4 => c \notin DOMAIN call_states

C5_Witness ==
    \E c \in CallSids : failRun[c].n = 2 /\ failRun[c].step = 2
                        /\ call_states[c].data["name"] = "Customer"

\* C6: a caller who keeps delivering utterances is never stalled - a stored
\* session has consumed at most one utterance at its current step (the second
\* one always leaves the step) and at most six in all, so the seventh
\* utterance at the latest finalizes the booking.
C6_NeverStalled ==
    \A c \in CallSids :
        /\ turns[c].total <= 7
        /\ c \in DOMAIN call_states => turns[c].total <= 6 /\ turns[c].atStep <= 1

C6_Witness ==
    \E c \in CallSids : c \notin DOMAIN call_states /\ turns[c].total = 7 /\ made[c] # {}

\* the latest request was an utterance of call c handled at the collecting
\* step st, from which extract_info_from_speech returned a value
ExtractingEvent(c, st) ==
    /\ calls_handled' = calls_handled + 1
    /\ last'.call = c /\ last'.speech # ""
    /\ c \in DOMAIN call_states /\ call_states[c].step = st
    /\ Extracted[last'.speech, st] \notin {None, Some("")}

\* the session of call c after the request holds the extracted value in the
\* slot of step st, no failed attempts, and the step after st
StoredAndAdvanced(c, st) ==
    /\ c \in DOMAIN call_states'
    /\ call_states'[c].step = st + 1
    /\ call_states'[c].attempts = 0
    /\ SlotOfStep[st] \in DOMAIN call_states'[c].data
    /\ call_states'[c].data[SlotOfStep[st]] = Extracted[last'.speech, st][1]

\* C26 (as stated): when an utterance at a collecting step (name, phone,
\* type, time) yields an extracted value, the resulting session has that
\* value stored in the slot of the step, attempt_count zero and the step
\* advanced by exactly one.
C26_ExtractionStoresAndAdvances ==
    [][\A c \in CallSids : \A st \in 1..4 :
          ExtractingEvent(c, st) => StoredAndAdvanced(c, st)]_vars

\* C26 (amended): at the name, phone and type steps an extracted value is
\* stored in the slot of the step, attempt_count is zero and the step is
\* advanced by exactly one; at the time step the same request finalizes the
\* booking, so the value is the time of the appointment the request creates
\* and the session is removed from the store.
C26_ExtractionStoresOrBooks ==
    [][\A c \in CallSids : \A st \in 1..4 :
          ExtractingEvent(c, st) =>
              IF st < 4 THEN StoredAndAdvanced(c, st)
              ELSE /\ c \notin DOMAIN call_states'
                   /\ \E n \in DOMAIN appointments' \ DOMAIN appointments :
                         appointments'[n].time = Extracted[last'.speech, st][1]]_vars

C26_Witness ==
    \E c \in CallSids :
        /\ last.call = c /\ last.speech = U_PHONE /\ ~dup
        /\ c \in DOMAIN call_states
        /\ call_states[c].step = 3 /\ call_states[c].attempts = 0
        /\ call_states[c].data["phone"] = "555-123-4567"

\* the words the type step (3) and the time step (4) recognise
StepKeywords ==
    [st \in 3..4 |->
        IF st = 3 THEN {"clean", "cleaning", "check", "checkup", "exam", "consult",
                        "consultation", "new", "emergency", "urgent", "pain", "hurt"}
        ELSE {"morning", "am", "early", "afternoon", "pm", "later"}]

\* the utterances of the model that contain no recognised word of the step
NoKeyword ==
    [u \in Utterances, st \in 3..4 |-> ~ContainsAny(Strip(Lower(u)), StepKeywords[st])]

\* C27: at the appointment-type and time-preference steps an utterance
\* containing no recognised keyword is a failed attempt: the first such
\* utterance at the step leaves the session at the step with attempt_count
\* incremented to one (the question is asked again) and stores no value; the
\* defaults "checkup" and "morning" are applied only on exhausted attempts.
C27_NoKeywordIsFailedAttempt ==
    [][\A c \in CallSids : \A st \in 3..4 :
          (/\ calls_handled' = calls_handled + 1
           /\ last'.call = c /\ last'.speech \in Utterances
           /\ c \in DOMAIN call_states
           /\ call_states[c].step = st /\ call_states[c].attempts = 0
           /\ NoKeyword[last'.speech, st])
          => /\ c \in DOMAIN call_states'
             /\ call_states'[c].step = st
             /\ call_states'[c].attempts = 1
             /\ SlotOfStep[st] \notin DOMAIN call_states'[c].data]_vars

\* C33: on the first webhook event for a new call_id the session moves from
\* GREETING to COLLECT_NAME whatever the utterance of the event is: the
\* greeting prompt is returned, no slot is filled and no attempt is counted.
C33_FirstEventGreets ==
    [][\A c \in CallSids :
          (/\ calls_handled' = calls_handled + 1
           /\ last'.call = c
           /\ c \notin DOMAIN call_states)
          => /\ c \in DOMAIN call_states'
             /\ call_states'[c] = [step |-> 1, data |-> <<>>, attempts |-> 0]
             /\ reply'.prompt = "greeting" /\ ~reply'.complete
             /\ appointments' = appointments]_vars

C33_Witness ==
    \E c \in CallSids :
        /\ last.call = c /\ last.speech = U_NAME /\ ~dup
        /\ calls_handled = 1
        /\ call_states[c] = [step |-> 1, data |-> <<>>, attempts |-> 0]
        /\ reply.prompt = "greeting"

\* the question asked again at each collecting step
RepromptOfStep ==
    [st \in 1..4 |-> CASE st = 1 -> "reprompt_name" [] st = 2 -> "thank_ask_phone"
                        [] st = 3 -> "ask_type" [] st = 4 -> "ask_time"]

\* C37: a webhook event without a speech transcript (SpeechResult absent or
\* empty) for a call at a collecting step leaves the step, the slots and the
\* attempt count of the session exactly as they were - it is neither an
\* extraction nor a counted failed attempt - and only the question of the
\* current step is returned.
C37_SilentEventKeepsSession ==
    [][\A c \in CallSids :
          (/\ calls_handled' = calls_handled + 1
           /\ last'.call = c /\ last'.speech = NoSpeech
           /\ c \in DOMAIN call_states
           /\ call_states[c].step \in 1..4)
          => /\ c \in DOMAIN call_states'
             /\ call_states'[c] = call_states[c]
             /\ appointments' = appointments
             /\ ~reply'.complete
             /\ reply'.prompt = RepromptOfStep[call_states[c].step]]_vars

C37_Witness ==
    \E c \in CallSids :
        /\ last.call = c /\ last.speech = NoSpeech /\ ~dup
        /\ c \in DOMAIN call_states
        /\ call_states[c].step = 2 /\ call_states[c].attempts = 1
        /\ reply.prompt = "thank_ask_phone"

\* C38: in every session held in the store between webhook requests the
\* step is between 1 and 4 and the filled slots are exactly those of the
\* steps already passed: name iff step >= 2, phone iff step >= 3, type iff
\* step >= 4, and time never.
C38_SlotsMatchStep ==
    \A c \in DOMAIN call_states :
        /\ call_states[c].step \in 1..4
        /\ DOMAIN call_states[c].data = {SlotOfStep[st] : st \in 1..(call_states[c].step - 1)}

C38_Witness ==
    \E c \in DOMAIN call_states :
        /\ call_states[c].step = 4
        /\ DOMAIN call_states[c].data = {"name", "phone", "type"}

\* C39: in every session held in the store between webhook requests the
\* attempt count is 0 or 1; it never holds 2 or more once generate_response
\* has returned.
C39_AttemptsBelowCap ==
    \A c \in DOMAIN call_states : call_states[c].attempts \in {0, 1}

C39_Witness ==
    \E c \in DOMAIN call_states : call_states[c].attempts = 1 /\ call_states[c].step = 1

\* the position of call c in the order GREETING (0), COLLECT_NAME (1),
\* COLLECT_PHONE (2), COLLECT_TYPE (3), COLLECT_TIME (4), CONFIRM (5),
\* TERMINAL (6): the step of its stored session; without a stored session
\* GREETING before the call booked and TERMINAL after it did
StepOfCall(cs, booked, c) ==
    IF c \in DOMAIN cs THEN cs[c].step
    ELSE IF booked[c] # {} THEN 6 ELSE 0

\* C24: across any sequence of webhook events for one call_id (duplicated
\* events and events after the booking was finalized included) the step of
\* the call never moves backwards in the order GREETING .. TERMINAL: each
\* event leaves it unchanged or advances it.
C24_StepNeverRegresses ==
    [][\A c \in CallSids :
          StepOfCall(call_states', made', c) >= StepOfCall(call_states, made, c)]_vars

(***************************************************************************)
(* Claims about the history-derived orchestrator (checked under SpecFinal) *)
(***************************************************************************)

\* C3: over any sequence of webhook events for one call_id (a redelivered
\* final utterance and further turns after all fields are known included)
\* at most one appointment is ever created for that call_id.
C3_AtMostOneAppointmentPerCall ==
    \A c \in HistoryCallIds : Cardinality(fv_made[c]) <= 1

\* C21: sessions of different calls are independent - handling an event of
\* one call never creates, changes or deletes the session of another call,
\* whether or not the events carry a CallSid: every session was written by
\* the events of one telephone call only.
C21_SessionsIndependent ==
    \A id \in HistoryCallIds : Cardinality(fv_writers[id]) <= 1

\* C8: every voice webhook handler answers with well-formed telephony
\* markup even when processing fails internally - no request is ever
\* answered with a bare error status.
C8_FailureAnsweredWithMarkup ==
    fv_reply.status # 0 => fv_reply.status = 200 /\ Len(fv_reply.verbs) > 0

(***************************************************************************)
(* Claims about the voice turn (checked under SpecTurn)                    *)
(***************************************************************************)

\* C23: for every AI reply the confidence score _calculate_confidence
\* returns lies in the closed interval [0.1, 1.0] (in ten-thousandths:
\* 1000..10000).
C23_ConfidenceClamped ==
    vt_trace.confidence # None =>
        vt_trace.confidence[1] >= 1000 /\ vt_trace.confidence[1] <= 10000

\* a turn whose reply is short and generic: the lowest score the model's
\* replies reach
C23_Witness ==
    /\ vt_trace.confidence = Some(3000)
    /\ vt_trace.ai_response = Some("I'm not sure.")

\* C7: whenever the confidence computed for the AI reply of a turn is below
\* the tenant's confidence_threshold, the response of the turn is the
\* transfer (a dial to a human) and the AI reply is not spoken - for every
\* voice configuration and every outcome of the later steps of the turn.
C7_LowConfidenceTransfers ==
    (/\ vt_trace.confidence # None
     /\ vt_trace.threshold # None
     /\ vt_trace.confidence[1] < vt_trace.threshold[1])
    => /\ \E i \in DOMAIN vt_reply.verbs : vt_reply.verbs[i] = "Dial"
       /\ ~Contains(vt_reply.message, vt_trace.ai_response[1])

(***************************************************************************)
(* Claims about the background job (checked under SpecAsync)               *)
(***************************************************************************)

\* the latest poll spoke the text_response of the job's result
PollRenderedReply ==
    /\ va_last.result # None
    /\ va_last.result[1].text_response # None
    /\ va_last.reply.message = va_last.result[1].text_response[1]

\* C9: a poll renders the job's reply exactly when the status it reads is
\* SUCCESS; a poll that reads a status that is not final answers "please
\* hold" (so a job pending at three successive polls is answered "please
\* hold" three times and the first poll after SUCCESS renders the reply).
C9_PollRendersReplyIffSuccess ==
    va_last.task # 0 =>
        /\ (va_last.status = "SUCCESS") <=> PollRenderedReply
        /\ va_last.status \notin {"SUCCESS", "FAILURE"} => va_last.reply.message = HoldText

\* C10: a job that failed on its initial attempt and on every permitted
\* retry has the status FAILURE when polled.
C10_ExhaustedJobIsFailure ==
    \A t \in TaskIds :
        tasks[t].failures = max_retries + 1 => get_voice_task_status(t).status = "FAILURE"

\* the verbs of a response include v
HasVerb(r, v) == \E i \in DOMAIN r.verbs : r.verbs[i] = v

\* the latest poll read a final status of a job all of whose max_retries + 1
\* attempts raised (a job is not changed again after its last failure, so
\* the failure count of the task is the one the poll met)
PolledAfterExhaustion ==
    /\ va_last.task # 0
    /\ va_last.status \notin {"PENDING", "PROCESSING", "RETRY"}
    /\ tasks[va_last.task].failures = max_retries + 1

\* C11: a poll for a job whose processing has failed permanently (every
\* attempt raised and the retries are exhausted) renders the transfer to a
\* human (a dial), not the error hangup and not another "please hold".
C11_ExhaustedPollTransfers ==
    PolledAfterExhaustion =>
        /\ HasVerb(va_last.reply, "Dial")
        /\ va_last.reply.message = PollFailureText

\* the interim answers: the one given when a job is submitted
\* (voice_async.py lines 290-294) and the one a poll gives for a job that is
\* not final (lines 226-232)
IsHoldReply(r) ==
    r.message \in {"Let me think about that for a moment...", HoldText}

\* C12: every interim "please hold" response - on submission and on a poll
\* that finds the job PENDING or PROCESSING - contains a redirect to the
\* polling endpoint, so that the call keeps polling until the job is final.
C12_HoldRepliesRedirect ==
    IsHoldReply(va_reply) => HasVerb(va_reply, "Redirect")

\* C36: the status observed through the poll endpoint is stable once
\* terminal - after a poll has observed a task as SUCCESS and rendered its
\* real reply, the next poll for the same task_id does not observe it as
\* PENDING or PROCESSING and does not render a "please hold" response.
C36_SuccessStaysObserved ==
    [][(/\ va_last'.task = va_last.task
        /\ va_last.status = "SUCCESS"
        /\ va_last.result[1].text_response # None)
       => /\ va_last'.status \notin {"PENDING", "PROCESSING"}
          /\ ~IsHoldReply(va_last'.reply)]_vars

(***************************************************************************)
(* Claims about the retry schedule (checked under SpecJobs)                *)
(***************************************************************************)

\* C13: every background job (voice processing, conversation processing,
\* speech generation) has a bounded retry count - it is never run more than
\* max_retries + 1 times - and the delay before each successive retry grows
\* exponentially: each retry waits at least twice as long as the one before.
C13_BoundedExponentialRetries ==
    \A name \in JobNames :
        /\ tasks[name].retries <= TaskOptions[name].max_retries
        /\ tasks[name].failures <= TaskOptions[name].max_retries + 1
        /\ \A i \in 2..Len(tasks[name].countdowns) :
              tasks[name].countdowns[i] >= 2 * tasks[name].countdowns[i - 1]

(***************************************************************************)
(* Claims about the background job with running workers (SpecAsyncLive)    *)
(***************************************************************************)

\* C14: every submitted job eventually reaches a terminal status (SUCCESS or
\* FAILURE), whether or not any poll request is ever made for it; no job
\* remains PENDING, PROCESSING or RETRY forever.
C14_SubmittedJobTerminates ==
    \A t \in TaskIds : tasks[t].sent ~> (tasks[t].status \in {"SUCCESS", "FAILURE"})

\* a job that ran through all its retries to a terminal status while no poll
\* was ever made
C14_Witness ==
    /\ va_last.task = 0
    /\ \E t \in TaskIds : /\ tasks[t].retries = max_retries
                          /\ tasks[t].status \in {"SUCCESS", "FAILURE"}

(***************************************************************************)
(* Claims about the markup of the responses                                *)
(***************************************************************************)

\* C15: when the caller gives no input on a continue-gather response, the
\* caller is asked once more and the call is then ended with a hangup: a
\* request without input that follows the answer to a request without input
\* is answered with a hangup, so silence cannot go on for ever (SpecTurn).
C15_SecondSilenceEndsCall ==
    [][(vt_reply.message = NoInputText /\ GatherNoInput)
          => HasVerb(vt_reply', "Hangup")]_vars

\* the verbs that end a response payload
TerminalVerbs == {"Gather", "Dial", "Hangup", "Redirect"}

\* C16: every markup response produced by the renderer is terminated by
\* exactly one of gather, dial, hangup, redirect - no response carries two of
\* them and none carries none (SpecAsync: the responses of submission and poll).
C16_ExactlyOneTerminalVerb ==
    va_reply.status = 200 =>
        Cardinality({i \in DOMAIN va_reply.verbs : va_reply.verbs[i] \in TerminalVerbs}) = 1

\* C17: a webhook request whose provider signature is invalid is rejected
\* with an explicit unauthorized response at every voice endpoint, the poll
\* continuation included, and no job result is rendered for it (SpecAsync).
C17_UnsignedPollUnauthorized ==
    (va_last.task # 0 /\ ~va_last.signature_ok) =>
        /\ va_last.reply.status = 401
        /\ va_last.reply.verbs = <<>>

(***************************************************************************)
(* Claims about rejected requests                                          *)
(***************************************************************************)

\* C18: a voice webhook whose path tenant_id is unknown, or belongs to a
\* tenant that is not active, is answered with a spoken "practice
\* unavailable" message followed by a hangup, and stores nothing (SpecTurn).
C18_UnknownTenantUnavailable ==
    [][\A tenant_id \in TenantIds :
          GatherRejected(TRUE, tenant_id) =>
              /\ vt_reply'.status = 200
              /\ HasVerb(vt_reply', "Say") /\ HasVerb(vt_reply', "Hangup")
              /\ db' = db]_vars

(***************************************************************************)
(* Claims about the validation of the signature (checked under SpecGateway)*)
(***************************************************************************)

\* C19: validation is skipped only in debug mode - outside debug mode
\* validate_twilio_signature returns True only for a request whose signature
\* equals the HMAC computed with the configured auth token over the request
\* URL and form parameters, and returns False when the token or the
\* signature header is missing.
C19_ValidatedOutsideDebug ==
    (sg_request # NoRequest /\ ~settings.DEBUG) =>
        /\ sg_valid =>
              /\ settings.TWILIO_AUTH_TOKEN # ""
              /\ sg_request.signature =
                    Some(Hmac(settings.TWILIO_AUTH_TOKEN,
                              DataString(sg_request.url, sg_request.body)))
        /\ (settings.TWILIO_AUTH_TOKEN = "" \/ sg_request.signature = None) => ~sg_valid

\* outside debug mode a request with form fields was accepted
C19_Witness ==
    /\ ~settings.DEBUG
    /\ sg_valid
    /\ Len(sg_request.body) = 2

(***************************************************************************)
(* Claims about failures of the external services (checked under SpecTurn) *)
(***************************************************************************)

\* speech-to-text, the chat completion or text-to-speech raised in a turn
\* whose database works
ExternalServiceFailed(env) ==
    /\ env.db = "ok"
    /\ \/ ReachesStt(env) /\ env.stt = None
       \/ ReachesAi(env) /\ env.ai = None
       \/ ReachesTts(env) /\ env.tts = "error"

\* C20: when the language model, speech-to-text or text-to-speech fails
\* during a turn, no exception leaves the orchestrator and the caller gets
\* an ordinary reply of the dialogue for the turn: markup that continues the
\* call, with no failure message and no transfer.
C20_ServiceFailureFallsBack ==
    [][\A env \in TurnEnvs :
          (ExternalServiceFailed(env) /\ GatherSpeech(env)) =>
              /\ vt_reply'.status = 200
              /\ vt_reply'.message \notin {TurnErrorText, GatherErrorText}
              /\ ~HasVerb(vt_reply', "Dial")]_vars

(***************************************************************************)
(* Claims about the lifetime of a session (checked under SpecFlowLive)     *)
(***************************************************************************)

\* C22: every session is eventually destroyed - a session whose caller
\* hangs up early, or for which no further event arrives, is removed from
\* the state store (on abandonment or after a time-to-live) and does not
\* stay in it for ever.
C22_SessionEventuallyDestroyed ==
    \A c \in CallSids : (c \in DOMAIN call_states) ~> (c \notin DOMAIN call_states)

(***************************************************************************)
(* Claims about the conversational receptionist (checked under SpecSmart)  *)
(***************************************************************************)

\* C25: once a slot (name, phone, appointment type, time preference) holds
\* a successfully extracted value, no later utterance of the same call
\* changes or clears that value.
SlotsHeld(cc, c) == extract_appointment_info(get_conversation_history(cc, c))

C25_FilledSlotKept ==
    [][\A c \in CallSids : \A k \in Slots :
          SlotsHeld(call_conversations, c)[k] # None
          => SlotsHeld(call_conversations', c)[k] = SlotsHeld(call_conversations, c)[k]]_vars

\* C30: the session of a call exists until its booking is finalized:
\* immediately after the event on which generate_response finalizes the
\* booking and reports the conversation complete, the store holds no entry
\* for the call_id of that event.
C30_NoEntryAfterBooking ==
    [][\A c \in CallSids :
          (/\ Len(sr_appointments') > Len(sr_appointments)
           /\ sr_reply'.complete
           /\ get_conversation_history(call_conversations', c)
                 # get_conversation_history(call_conversations, c))
          => c \notin DOMAIN call_conversations']_vars

(***************************************************************************)
(* Claims about the multi-tenant machine (checked under SpecTenant)        *)
(***************************************************************************)

\* C28: a session and the appointment created from it belong to one tenant:
\* when a request finalizes the booking of a call, the appointment it
\* creates carries the tenant_id recorded in the session when the session
\* was created, and the appointment statistics of that tenant are the ones
\* credited.
C28_AppointmentOfSessionTenant ==
    [][\A c \in CallSids :
          (c \in DOMAIN mt_call_states /\ c \notin DOMAIN mt_call_states')
          => /\ \A k \in DOMAIN mt_appointments' \ DOMAIN mt_appointments :
                   mt_appointments'[k].tenant_id = mt_call_states[c].tenant_id
             /\ tenants'[mt_call_states[c].tenant_id].total_appointments
                  = tenants[mt_call_states[c].tenant_id].total_appointments + 1]_vars

\* the user messages of a history supply all four items
FpSupplied(history) ==
    /\ FpExtractPatientInfo(history).name # None
    /\ FpExtractPatientInfo(history).phone # None
    /\ FpExtractPatientInfo(history).appointment_type # None
    /\ FpExtractPatientInfo(history).preferred_time # None

\* C31: in fixed_production_app.py, the utterance with which a call has
\* supplied a name, a phone number, an appointment type and a time preference
\* reaches the booking branch: an appointment is created, the reply is the
\* confirmation with the code of that appointment, and the call is ended.
C31_SuppliedCallIsBooked ==
    [][(/\ fp_stats'.calls_handled = fp_stats.calls_handled + 1
        /\ fp_reply'.speech # ""
        /\ FpSupplied(fp_call_states'[fp_reply'.call])
        /\ ~FpSupplied(DictGet(fp_call_states, fp_reply'.call, <<>>)))
       => /\ Cardinality(DOMAIN fp_appointments') = Cardinality(DOMAIN fp_appointments) + 1
          /\ Len(fp_reply'.fields) = 4
          /\ fp_reply'.fields[3] \in DOMAIN fp_appointments'
          /\ fp_reply'.hangup]_vars

\* the last two messages of a history are the answer "checkup" and the
\* question for the type that followed it
HyAskedAgain(history) ==
    /\ Len(history) >= 2
    /\ history[Len(history) - 1] = [role |-> "user", content |-> U_CHECK]
    /\ history[Len(history)] = [role |-> "assistant", content |-> HyAskType]

\* C32: in hybrid_voice_system.py a caller who has given a name and a phone
\* number and whose appointment type is "checkup" is not asked for the type
\* without end: once the answer "checkup" has been followed by the question
\* for the type, the next answer "checkup" is followed by another question.
C32_CheckupCallerMovesOn ==
    [][(/\ hy_handled' = hy_handled + 1
        /\ hy_reply'.speech = U_CHECK
        /\ HyCheckupCaller(DictGet(hy_call_states, hy_reply'.call, <<>>))
        /\ HyAskedAgain(DictGet(hy_call_states, hy_reply'.call, <<>>)))
       => hy_reply'.say # HyAskType]_vars

\* C34: in database_app.py, for every interleaving of two finalizing webhooks
\* handled at the same time, create_appointment_in_db gives the bookings
\* distinct confirmation numbers and both are persisted: no commit is
\* refused, no caller hears that the scheduling system has trouble, and a
\* confirmation a caller hears names a stored appointment.
C34_ConcurrentBookingsPersist ==
    \A h \in Handlers :
        /\ da_handlers[h].pc # "rollback"
        /\ da_replies[h].text # "I'm having trouble with our scheduling system right now."
        /\ da_replies[h].confirmation_number # None
           => CommitRefused(da_appointments, da_replies[h].confirmation_number[1])

\* C35: a booking finalized by the voice webhook is stored under a
\* confirmation code that no stored appointment holds, so finalizing never
\* overwrites an appointment record: each booking makes the store one
\* appointment larger, for every interleaving of bookings with deletions of
\* appointments and of tenants through the admin API.
C35_BookingNeverOverwrites ==
    [][mt_stats'.total_appointments = mt_stats.total_appointments + 1
       => /\ Cardinality(DOMAIN mt_appointments') = Cardinality(DOMAIN mt_appointments) + 1
          /\ \A k \in DOMAIN mt_appointments : mt_appointments'[k] = mt_appointments[k]]_vars

\* the filler words of the name rule, and the names that extraction yields
\* from the utterances of the model and that contain one of them
NameRuleFillers == {"calling", "appointment", "schedule", "speaking", "dental"}
NamesWithFiller ==
    {n \in {MtExtracted[u, 1][1] : u \in {v \in MtUtterances : MtExtracted[v, 1] # None}} :
        ContainsAny(Lower(n), NameRuleFillers)}

\* C29: no value stored in the name slot by extraction contains one of the
\* filler words "calling", "appointment", "schedule", "speaking", "dental",
\* whether the candidate came from a self-introduction pattern or from a
\* short bare utterance taken as a literal name.
C29_NoFillerInStoredName ==
    \A c \in DOMAIN mt_call_states :
        "name" \in DOMAIN mt_call_states[c].data
        => mt_call_states[c].data["name"] \notin NamesWithFiller

====
